---- MODULE Spec2Model ----
(***************************************************************************)
(* Model of github.com/maruel/httpjson: the strict JSON decode of a        *)
(* response body (decodeJSON), the unknown-field walker                    *)
(* (findExtraKeysGeneric / findExtraKeysStruct / findExtraKeysSlice) and   *)
(* the error aggregation of Client.decodeResponse and DecodeResponse.      *)
(*                                                                         *)
(* A JSON document (the bytes of a body) is a tree                         *)
(*   [k |-> kind, c |-> children]                                          *)
(* with kind in "null", "string", "number", "array", "object" (true and    *)
(* false are scalars like the numbers and are left out);                   *)
(* the children of an array are documents, the children of an object are   *)
(* [key, val] pairs in document order (a key may occur twice).             *)
(* A body that is no JSON document at all is [k |-> "invalid"] (a bad      *)
(* character) or [k |-> "eof"] (the document is cut short).                *)
(*                                                                         *)
(* A parsed generic value (what Decode(&m) with UseNumber builds) has the  *)
(* same form, with the Go dynamic type as its kind: "nil", "string",       *)
(* "json.Number", "[]interface {}", "map[string]interface {}";             *)
(* the children of a map are [key, val] pairs with distinct keys.          *)
(***************************************************************************)
EXTENDS Integers, Sequences, FiniteSets, TLC

\* Largest number of nodes (scalars, arrays, objects) of a JSON document.
MaxNodes == 3

\* The text encoding/json puts in front of the key of an unknown field, and
\* the text decodeJSON searches the error message for (httpjson.go:192).
UnknownFieldMarker == "json: unknown field "

----------------------------------------------------------------------------
\* Go types used as decode targets (reflect.Type), by their String().

Field(name, tag, pkgPath, type) ==
    [Name |-> name, Tag |-> tag, PkgPath |-> pkgPath, Type |-> type]

Scalar(kind) == [Kind |-> kind, Elem |-> "", Fields |-> <<>>]
Wrapper(kind, elem) == [Kind |-> kind, Elem |-> elem, Fields |-> <<>>]
Struct(fields) == [Kind |-> "Struct", Elem |-> "", Fields |-> fields]

\* The json tag of a field is kept as strings.Split(tag, ",") returns it:
\* <<"">> is a field with no json tag.
NoTag == <<"">>

TypeTable ==
    [t \in {"string", "int", "interface {}",
            "NestedStruct", "*NestedStruct", "[]NestedStruct", "[]*NestedStruct",
            "TestStruct", "Node", "*Node", "**Node", "Example",
            "map[string]string", "WithMap", "WithAny", "Tricky", "Out",
            "Unnamed", "[]Unnamed", "WithArray", "Message", "Fallback",
            "Private"} |->
       CASE t = "string" -> Scalar("String")
         [] t = "int" -> Scalar("Int")
         [] t = "interface {}" -> Scalar("Interface")
         \* type NestedStruct struct { ValidField string }
         [] t = "NestedStruct" ->
                Struct(<<Field("ValidField", NoTag, "", "string")>>)
         [] t = "*NestedStruct" -> Wrapper("Ptr", "NestedStruct")
         [] t = "[]NestedStruct" -> Wrapper("Slice", "NestedStruct")
         [] t = "[]*NestedStruct" -> Wrapper("Slice", "*NestedStruct")
         \* type TestStruct struct { Field2 int; Nested NestedStruct }
         [] t = "TestStruct" ->
                Struct(<<Field("Field2", NoTag, "", "int"),
                         Field("Nested", NoTag, "", "NestedStruct")>>)
         \* type Node struct { Name string `json:"name"`; Next *Node `json:"next"` }
         [] t = "Node" ->
                Struct(<<Field("Name", <<"name">>, "", "string"),
                         Field("Next", <<"next">>, "", "*Node")>>)
         [] t = "*Node" -> Wrapper("Ptr", "Node")
         [] t = "**Node" -> Wrapper("Ptr", "*Node")
         \* type Example struct {
         \*     Name    string `json:"name,omitempty"`
         \*     Ignored string `json:"-"`
         \*     secret  string
         \* }
         [] t = "Example" ->
                Struct(<<Field("Name", <<"name", "omitempty">>, "", "string"),
                         Field("Ignored", <<"-">>, "", "string"),
                         Field("secret", NoTag, "httpjson", "string")>>)
         [] t = "map[string]string" -> Wrapper("Map", "string")
         \* type WithMap struct { M map[string]string }
         [] t = "WithMap" ->
                Struct(<<Field("M", NoTag, "", "map[string]string")>>)
         \* type WithAny struct { Any any `json:"any"` }
         [] t = "WithAny" ->
                Struct(<<Field("Any", <<"any">>, "", "interface {}")>>)
         \* type Tricky struct { X int `json:"json: unknown field "` }
         [] t = "Tricky" ->
                Struct(<<Field("X", <<UnknownFieldMarker>>, "", "int")>>)
         \* var out struct { Different string `json:"different"` }
         [] t = "Out" ->
                Struct(<<Field("Different", <<"different">>, "", "string")>>)
         \* type WithArray struct {
         \*     UnnamedArray []struct { FieldC string } `json:"unnamed_array"`
         \* }
         [] t = "Unnamed" ->
                Struct(<<Field("FieldC", NoTag, "", "string")>>)
         [] t = "[]Unnamed" -> Wrapper("Slice", "Unnamed")
         [] t = "WithArray" ->
                Struct(<<Field("UnnamedArray", <<"unnamed_array">>, "", "[]Unnamed")>>)
         \* var out struct { Message string `json:"message"` }
         [] t = "Message" ->
                Struct(<<Field("Message", <<"message">>, "", "string")>>)
         \* var fallback struct { Error string `json:"error"` }
         [] t = "Fallback" ->
                Struct(<<Field("Error", <<"error">>, "", "string")>>)
         \* type Private struct { secret string }
         [] t = "Private" ->
                Struct(<<Field("secret", NoTag, "httpjson", "string")>>)]

Kind(t) == TypeTable[t].Kind
Elem(t) == TypeTable[t].Elem
NumField(t) == Len(TypeTable[t].Fields)

\* The keys a body sent for target type t is built from: the wire keys and
\* Go names of the fields reachable from t, and a key no field has.
Vocabulary(t) ==
    CASE t \in {"NestedStruct", "*NestedStruct", "[]NestedStruct", "[]*NestedStruct"} ->
              {"ValidField", "Extra"}
      [] t = "TestStruct" -> {"Field2", "Nested", "Extra"}
      [] t \in {"Node", "*Node", "**Node"} -> {"name", "next", "Extra"}
      [] t = "Example" -> {"name", "Name", "Ignored"}
      [] t = "Private" -> {"secret"}
      [] t = "map[string]string" -> {"a", "b"}
      [] t = "WithMap" -> {"M", "Extra"}
      [] t = "WithAny" -> {"any", "Extra"}
      [] t = "Tricky" -> {UnknownFieldMarker, "Extra"}
      [] t = "Out" -> {"different", "output"}
      [] t \in {"Unnamed", "[]Unnamed"} -> {"FieldC", "Extra3"}
      [] t = "WithArray" -> {"unnamed_array", "Extra3"}
      [] t \in {"Message", "Fallback"} -> {"message", "error"}
      [] OTHER -> {"Extra"}

----------------------------------------------------------------------------
\* JSON documents of at most MaxNodes nodes over a set of keys.

Leaf(kind) == [k |-> kind, c |-> <<>>]
ScalarKinds == {"null", "string", "number"}

RECURSIVE DocsOfSize(_, _), Forests(_, _)
\* The sequences of documents that have n nodes together.
Forests(n, keys) ==
    IF n = 0 THEN {<<>>}
    ELSE UNION {{<<d>> \o f : d \in DocsOfSize(j, keys), f \in Forests(n - j, keys)} :
                j \in 1..n}

DocsOfSize(n, keys) ==
    IF n = 1
    THEN {Leaf(kind) : kind \in ScalarKinds \cup {"array", "object"}}
    ELSE LET fs == Forests(n - 1, keys) \ {<<>>} IN
         {[k |-> "array", c |-> f] : f \in fs}
         \cup UNION {{[k |-> "object", c |-> [i \in 1..Len(f) |-> [key |-> ks[i], val |-> f[i]]]] :
                      ks \in [1..Len(f) -> keys]} : f \in fs}

Docs(keys) == UNION {DocsOfSize(n, keys) : n \in 1..MaxNodes}

\* Bodies: the documents, and the two bodies that are no JSON document.
Bodies(keys) == Docs(keys) \cup {Leaf("invalid"), Leaf("eof")}

\* An object with the given members, and an array with the given elements.
Object(members) == [k |-> "object", c |-> members]
Array(elements) == [k |-> "array", c |-> elements]
Member(key, val) == [key |-> key, val |-> val]

\* Documents of the repository's tests that have more than MaxNodes nodes.
TestBodies(t) ==
    CASE t = "TestStruct" ->
             \* {"Field2":42,"Nested":{"ValidField":"nestedValue","Extra":"extra"}}
             {Object(<<Member("Field2", Leaf("number")),
                       Member("Nested", Object(<<Member("ValidField", Leaf("string")),
                                                 Member("Extra", Leaf("string"))>>))>>)}
      [] t = "WithArray" ->
             \* {"unnamed_array":[{"FieldC":"value","Extra3":"unexpected_unnamed"}]}
             {Object(<<Member("unnamed_array",
                              Array(<<Object(<<Member("FieldC", Leaf("string")),
                                               Member("Extra3", Leaf("string"))>>)>>))>>)}
      [] t = "[]NestedStruct" ->
             \* [{"ValidField":"value1"},{"ValidField":"value2","Extra":"extra"}]
             {Array(<<Object(<<Member("ValidField", Leaf("string"))>>),
                      Object(<<Member("ValidField", Leaf("string")),
                               Member("Extra", Leaf("string"))>>)>>)}
      [] OTHER -> {}

----------------------------------------------------------------------------
\* The permissive parse: json.Decoder.Decode into a generic value, with
\* UseNumber. An object becomes a map: a key that occurs twice keeps the
\* value of its last occurrence.

RECURSIVE Parse(_)
\* The index of the last pair of pairs that has the key of pair i.
LastOf(pairs, i) ==
    CHOOSE j \in i..Len(pairs) :
        /\ pairs[j].key = pairs[i].key
        /\ \A l \in (j + 1)..Len(pairs) : pairs[l].key # pairs[i].key

\* The indexes of the first occurrence of every key, in increasing order.
RECURSIVE FirstOccurrences(_, _)
FirstOccurrences(pairs, i) ==
    IF i > Len(pairs) THEN <<>>
    ELSE (IF \E j \in 1..(i - 1) : pairs[j].key = pairs[i].key THEN <<>> ELSE <<i>>)
         \o FirstOccurrences(pairs, i + 1)

Parse(doc) ==
    CASE doc.k = "null" -> Leaf("nil")
      [] doc.k = "string" -> Leaf("string")
      [] doc.k = "number" -> Leaf("json.Number")
      [] doc.k = "array" ->
             [k |-> "[]interface {}", c |-> [i \in 1..Len(doc.c) |-> Parse(doc.c[i])]]
      [] doc.k = "object" ->
             LET first == FirstOccurrences(doc.c, 1) IN
             [k |-> "map[string]interface {}",
              c |-> [i \in 1..Len(first) |->
                        [key |-> doc.c[first[i]].key,
                         val |-> Parse(doc.c[LastOf(doc.c, first[i])].val)]]]

----------------------------------------------------------------------------
\* The unknown-field walker (httpjson.go:209-282).

\* The type of the map that holds the value, in place of the type of the value.
UnknownFieldError_TypeOfMap(field, v) ==
    [Field |-> field, Type |-> "map[string]interface {}"]

\* &UnknownFieldError{Field: field, Type: fmt.Sprintf("%T", v)}
UnknownFieldError(field, v) == [Field |-> field, Type |-> v.k]

\* What a call of the walker ends in: a list of errors, or a panic.
Returns(errs) == [panic |-> FALSE, out |-> errs]
Panics == [panic |-> TRUE, out |-> <<>>]

\* The walk stops at the first call that returned a diagnostic.
Append2_FirstOnly(r, more) ==
    IF r.panic THEN r ELSE IF r.out # <<>> THEN r ELSE more

\* out = append(out, more...) where more is the outcome of a nested call.
Append2(r, more) ==
    IF r.panic THEN r ELSE IF more.panic THEN more ELSE Returns(r.out \o more.out)

\* One pointer is taken off, whatever is below it.
Deref_Once(typ) == IF Kind(typ) = "Ptr" THEN Elem(typ) ELSE typ

\* for t.Kind() == reflect.Ptr { t = t.Elem() }
RECURSIVE Deref(_)
Deref(typ) == IF Kind(typ) = "Ptr" THEN Deref(Elem(typ)) ELSE typ

\* validFields of findExtraKeysStruct: wire key -> Go name of the field.
\* A later field with the same wire key replaces an earlier one.
RECURSIVE ValidFieldsFrom(_, _, _)
\* validFields with a field tagged "-" entered under its Go name.
ValidFieldsFrom_KeepsOmitted(typ, i, acc) ==
    IF i > NumField(typ) THEN acc
    ELSE LET f == TypeTable[typ].Fields[i]
             jsonName == f.Tag[1]
             others(key) == {e \in acc : e[1] # key} IN
         ValidFieldsFrom(typ, i + 1,
             IF f.PkgPath # "" THEN acc
             ELSE IF jsonName \in {"", "-"} THEN others(f.Name) \cup {<<f.Name, f.Name>>}
             ELSE others(jsonName) \cup {<<jsonName, f.Name>>})

ValidFieldsFrom(typ, i, acc) ==
    IF i > NumField(typ) THEN acc
    ELSE LET f == TypeTable[typ].Fields[i]
             jsonName == f.Tag[1]
             others(key) == {e \in acc : e[1] # key} IN
         ValidFieldsFrom(typ, i + 1,
             IF f.PkgPath # "" THEN acc
             ELSE IF jsonName = "" THEN others(f.Name) \cup {<<f.Name, f.Name>>}
             ELSE IF jsonName # "-" THEN others(jsonName) \cup {<<jsonName, f.Name>>}
             ELSE acc)

validFields(typ) == ValidFieldsFrom(typ, 1, {})

\* t.FieldByName(name): the fields of the struct that have this Go name.
FieldByName(typ, name) ==
    {i \in 1..NumField(typ) : TypeTable[typ].Fields[i].Name = name}

\* The orders a Go range over a map with n entries may visit them in.
RangeOrders(n) ==
    {p \in [1..n -> 1..n] : \A i, j \in 1..n : i # j => p[i] # p[j]}

RECURSIVE findExtraKeysGeneric(_, _, _), findExtraKeysStruct(_, _, _),
          findExtraKeysSlice(_, _, _), RangeStruct(_, _, _, _, _), RangeSlice(_, _, _, _)

\* One iteration with v := key whatever the prefix is.
StructEntry_KeyOnly(typ, key, val, pfx) ==
    LET hit == {e \in validFields(typ) : e[1] = key} IN
    IF hit = {} THEN {Returns(<<UnknownFieldError(key, val)>>)}
    ELSE LET name == (CHOOSE e \in hit : TRUE)[2]
             st == FieldByName(typ, name) IN
         IF st = {} THEN {Returns(<<>>)}
         ELSE findExtraKeysGeneric(
                  TypeTable[typ].Fields[CHOOSE i \in st : TRUE].Type, val, key)

\* One iteration of the range loop of findExtraKeysStruct, for every
\* outcome of the nested call.
StructEntry(typ, key, val, pfx) ==
    LET v == IF pfx # "" THEN pfx \o "." \o key ELSE key
        hit == {e \in validFields(typ) : e[1] = key} IN
    IF hit = {} THEN {Returns(<<UnknownFieldError(v, val)>>)}
    ELSE LET name == (CHOOSE e \in hit : TRUE)[2]
             st == FieldByName(typ, name) IN
         IF st = {} THEN {Returns(<<>>)}
         ELSE findExtraKeysGeneric(
                  TypeTable[typ].Fields[CHOOSE i \in st : TRUE].Type, val, v)

\* The range loop of findExtraKeysStruct from position i of visiting order p.
RangeStruct(typ, data, pfx, p, i) ==
    IF i > Len(data) THEN {Returns(<<>>)}
    ELSE {Append2(r, more) :
            r \in StructEntry(typ, data[p[i]].key, data[p[i]].val, pfx),
            more \in RangeStruct(typ, data, pfx, p, i + 1)}

\* findExtraKeysStruct: t.NumField() panics when t is no struct type.
findExtraKeysStruct(typ, data, pfx) ==
    IF Kind(typ) # "Struct" THEN {Panics}
    ELSE UNION {RangeStruct(typ, data, pfx, p, 1) : p \in RangeOrders(Len(data))}

\* strconv.Itoa for the indexes a bounded document has.
Itoa(i) == CASE i = 0 -> "0" [] i = 1 -> "1" [] i = 2 -> "2" [] i = 3 -> "3"
             [] i = 4 -> "4" [] i = 5 -> "5" [] OTHER -> "n"

\* The range loop with the elements numbered from 1.
RangeSlice_OneBased(typ, data, pfx, i) ==
    IF i > Len(data) THEN {Returns(<<>>)}
    ELSE {Append2(r, more) :
            r \in findExtraKeysGeneric(Elem(typ), data[i],
                                       pfx \o "[" \o Itoa(i) \o "]"),
            more \in RangeSlice(typ, data, pfx, i + 1)}

RangeSlice(typ, data, pfx, i) ==
    IF i > Len(data) THEN {Returns(<<>>)}
    ELSE {Append2(r, more) :
            r \in findExtraKeysGeneric(Elem(typ), data[i],
                                       pfx \o "[" \o Itoa(i - 1) \o "]"),
            more \in RangeSlice(typ, data, pfx, i + 1)}

\* findExtraKeysSlice that returns no error for data that is no slice.
findExtraKeysSlice_IgnoresMismatch(typ, data, pfx) ==
    IF data.k # "[]interface {}"
    THEN {Returns(<<>>)}
    ELSE RangeSlice(typ, data.c, pfx, 1)

findExtraKeysSlice(typ, data, pfx) ==
    IF data.k # "[]interface {}"
    THEN {Returns(<<UnknownFieldError(pfx, data)>>)}
    ELSE RangeSlice(typ, data.c, pfx, 1)

\* The walker without its first test: a nil value goes through the switch.
findExtraKeysGeneric_ReportsNil(typ, val, pfx) ==
    LET d == Deref(typ) IN
    CASE Kind(d) \in {"Struct", "Map"} ->
             IF val.k = "map[string]interface {}"
             THEN findExtraKeysStruct(d, val.c, pfx)
             ELSE {Returns(<<UnknownFieldError(pfx, val)>>)}
      [] Kind(d) \in {"Slice", "Array"} -> findExtraKeysSlice(d, val, pfx)
      [] Kind(d) \in {"Bool", "Int", "Float64", "String"} -> {Returns(<<>>)}
      [] OTHER -> {Returns(<<UnknownFieldError(pfx, val)>>)}

\* The set of outcomes of findExtraKeysGeneric(t, value, prefix); it has
\* several elements when the order of a range over a map matters.
findExtraKeysGeneric(typ, val, pfx) ==
    IF val.k = "nil" THEN {Returns(<<>>)}
    ELSE LET d == Deref(typ) IN
         CASE Kind(d) \in {"Struct", "Map"} ->
                  IF val.k = "map[string]interface {}"
                  THEN findExtraKeysStruct(d, val.c, pfx)
                  ELSE {Returns(<<UnknownFieldError(pfx, val)>>)}
           [] Kind(d) \in {"Slice", "Array"} -> findExtraKeysSlice(d, val, pfx)
           [] Kind(d) \in {"Bool", "Int", "Float64", "String"} -> {Returns(<<>>)}
           [] OTHER -> {Returns(<<UnknownFieldError(pfx, val)>>)}

----------------------------------------------------------------------------
\* Error values. A message is the sequence of its parts, so that
\* strings.Contains can look for a part.

Nil == [type |-> "nil"]
SyntaxError == [type |-> "*json.SyntaxError", msg |-> <<"invalid character">>]
ErrUnexpectedEOF == [type |-> "*errors.errorString", msg |-> <<"unexpected EOF">>]
\* fmt.Errorf("json: unknown field %q", key)
ErrUnknownField(key) ==
    [type |-> "*errors.errorString", msg |-> <<UnknownFieldMarker, key>>]

\* strings.Join(fieldStack, ".") as message parts.
RECURSIVE JoinDots(_)
JoinDots(stack) ==
    IF Len(stack) = 0 THEN <<>>
    ELSE IF Len(stack) = 1 THEN stack
    ELSE <<stack[1], ".">> \o JoinDots(Tail(stack))

\* (*json.UnmarshalTypeError).Error() for a value of JSON kind `kind` met
\* where type typ is wanted, in struct `struct` at field path `stack`.
UnmarshalTypeError(kind, typ, struct, stack) ==
    [type |-> "*json.UnmarshalTypeError",
     msg |-> IF struct # "" \/ stack # <<>>
             THEN <<"json: cannot unmarshal ", kind, " into Go struct field ", struct, ".">>
                  \o JoinDots(stack) \o <<" of type ", typ>>
             ELSE <<"json: cannot unmarshal ", kind, " into Go value of type ", typ>>]

\* The options numbered from 1.
WrapOption_FromOne(i, err) ==
    [type |-> "*fmt.wrapError",
     msg |-> <<"failed to decode server response option #", Itoa(i + 1), ": ">>,
     err |-> err]

\* fmt.Errorf("failed to decode server response option #%d: %w", i, err)
WrapOption(i, err) ==
    [type |-> "*fmt.wrapError",
     msg |-> <<"failed to decode server response option #", Itoa(i), ": ">>,
     err |-> err]

\* errors.Join(errs...): nil when there is no error to join.
Join(errs) == IF errs = <<>> THEN Nil ELSE [type |-> "*errors.joinError", errs |-> errs]

\* &Error{ResponseBody: b, StatusCode: code, PrintBody: printBody}
HTTPError(b, code, printBody) ==
    [type |-> "*httpjson.Error", ResponseBody |-> b, StatusCode |-> code,
     PrintBody |-> printBody]

\* The walker's errors as error values.
AsErrors(out) ==
    [i \in 1..Len(out) |->
        [type |-> "*httpjson.UnknownFieldError", Field |-> out[i].Field,
         Type |-> out[i].Type]]

\* fmt's %q of a string without characters to escape.
Quote(str) == "\"" \o str \o "\""

\* (*UnknownFieldError).Error(), as the parts of the text.
UnknownFieldErrorString(e) ==
    <<"unknown field ", Quote(e.Field), " of type ", Quote(e.Type)>>

\* (*Error).Error(), as lines: "http <status code>", and the body when
\* PrintBody is set.
HTTPErrorLines(h) ==
    <<<<"http ", ToString(h.StatusCode)>>>>
    \o (IF h.PrintBody THEN <<<<h.ResponseBody>>>> ELSE <<>>)

\* err.Error() as lines, each line the parts of its text: errors.Join puts
\* the texts of the errors on lines of their own.
RECURSIVE ErrorLines(_), ErrorLinesFrom(_, _)
ErrorLines(err) ==
    CASE err.type = "nil" -> <<>>
      [] err.type = "*errors.joinError" -> ErrorLinesFrom(err.errs, 1)
      [] err.type = "*httpjson.UnknownFieldError" -> <<UnknownFieldErrorString(err)>>
      [] err.type = "*httpjson.Error" -> HTTPErrorLines(err)
      [] err.type = "*fmt.wrapError" ->
             LET inner == ErrorLines(err.err) IN
             <<err.msg \o inner[1]>> \o Tail(inner)
      [] OTHER -> <<err.msg>>
ErrorLinesFrom(errs, i) ==
    IF i > Len(errs) THEN <<>>
    ELSE ErrorLines(errs[i]) \o ErrorLinesFrom(errs, i + 1)

\* strings.Contains(err.Error(), part)
Contains(err, part) == \E i \in 1..Len(err.msg) : err.msg[i] = part

----------------------------------------------------------------------------
\* encoding/json: Decoder.Decode(out) with UseNumber, and with
\* DisallowUnknownFields when strict (httpjson.go:181-186).

\* The name encoding/json gives a field: the tag name, else the Go name;
\* "" for a field it does not decode (unexported, or tagged "-").
DecoderName(f) ==
    IF f.PkgPath # "" \/ f.Tag = <<"-">> THEN ""
    ELSE IF f.Tag[1] # "" THEN f.Tag[1] ELSE f.Name

\* A representative of the keys that are equal under Unicode case folding,
\* for the keys of Vocabulary.
foldName(key) == IF key \in {"name", "Name"} THEN "NAME" ELSE key

\* The field of struct typ that key decodes into: an exact match of the
\* name first, then a case-insensitive one; 0 when there is none.
DecoderField(typ, key) ==
    LET fs == TypeTable[typ].Fields
        exact == {i \in 1..Len(fs) : DecoderName(fs[i]) # "" /\ DecoderName(fs[i]) = key}
        fold == {i \in 1..Len(fs) :
                    DecoderName(fs[i]) # "" /\ foldName(DecoderName(fs[i])) = foldName(key)} IN
    IF exact # {} THEN CHOOSE i \in exact : TRUE
    ELSE IF fold # {} THEN CHOOSE i \in fold : TRUE
    ELSE 0

\* The errors the decoder saves while it decodes doc into a value of type
\* typ, in document order; struct and stack are the decoder's errorContext.
RECURSIVE Unmarshal(_, _, _, _, _), UnmarshalAll(_, _, _, _, _, _)
Unmarshal(typ, doc, strict, struct, stack) ==
    LET d == Deref(typ)
        mismatch == <<UnmarshalTypeError(doc.k, d, struct, stack)>> IN
    IF doc.k = "null" \/ Kind(d) = "Interface" THEN <<>>
    ELSE CASE Kind(d) = "Struct" ->
                  IF doc.k # "object" THEN mismatch
                  ELSE UnmarshalAll(d, doc.c, strict, struct, stack, 1)
           [] Kind(d) = "Map" ->
                  IF doc.k # "object" THEN mismatch
                  ELSE UnmarshalAll(d, doc.c, strict, struct, stack, 1)
           [] Kind(d) = "Slice" ->
                  IF doc.k # "array" THEN mismatch
                  ELSE UnmarshalAll(d, doc.c, strict, struct, stack, 1)
           [] Kind(d) = "String" -> IF doc.k = "string" THEN <<>> ELSE mismatch
           [] Kind(d) = "Int" -> IF doc.k = "number" THEN <<>> ELSE mismatch

\* The members of an object or the elements of an array, from position i.
UnmarshalAll(typ, c, strict, struct, stack, i) ==
    IF i > Len(c) THEN <<>>
    ELSE (CASE Kind(typ) = "Struct" ->
                   LET f == DecoderField(typ, c[i].key) IN
                   IF f = 0
                   THEN (IF strict THEN <<ErrUnknownField(c[i].key)>> ELSE <<>>)
                   ELSE Unmarshal(TypeTable[typ].Fields[f].Type, c[i].val, strict, typ,
                                  Append(stack, DecoderName(TypeTable[typ].Fields[f])))
            [] Kind(typ) = "Map" -> Unmarshal(Elem(typ), c[i].val, strict, struct, stack)
            [] Kind(typ) = "Slice" -> Unmarshal(Elem(typ), c[i], strict, struct, stack))
         \o UnmarshalAll(typ, c, strict, struct, stack, i + 1)

\* What the decoder writes into the target while it decodes doc into a value
\* of type typ reached by path stack: one [path, kind] for every string or
\* number stored in a field, every entry set in a map, every element set in
\* a slice and every generic value stored in an interface. A null, a key no
\* field matches and a value of the wrong kind write nothing; the decoder
\* goes on after an error it saved.
RECURSIVE Stores(_, _, _), StoresAll(_, _, _, _)
Stores(typ, doc, stack) ==
    LET d == Deref(typ) IN
    IF doc.k = "null" THEN {}
    ELSE CASE Kind(d) = "Interface" -> {[path |-> stack, kind |-> Parse(doc).k]}
           [] Kind(d) = "Struct" /\ doc.k = "object" -> StoresAll(d, doc.c, stack, 1)
           [] Kind(d) = "Map" /\ doc.k = "object" -> StoresAll(d, doc.c, stack, 1)
           [] Kind(d) = "Slice" /\ doc.k = "array" -> StoresAll(d, doc.c, stack, 1)
           [] Kind(d) = "String" /\ doc.k = "string" -> {[path |-> stack, kind |-> "string"]}
           [] Kind(d) = "Int" /\ doc.k = "number" -> {[path |-> stack, kind |-> "number"]}
           [] OTHER -> {}

StoresAll(typ, c, stack, i) ==
    IF i > Len(c) THEN {}
    ELSE (CASE Kind(typ) = "Struct" ->
                   LET f == DecoderField(typ, c[i].key) IN
                   IF f = 0 THEN {}
                   ELSE Stores(TypeTable[typ].Fields[f].Type, c[i].val,
                               Append(stack, DecoderName(TypeTable[typ].Fields[f])))
            [] Kind(typ) = "Map" ->
                   {[path |-> Append(stack, c[i].key), kind |-> "entry"]}
                   \cup Stores(Elem(typ), c[i].val, Append(stack, c[i].key))
            [] Kind(typ) = "Slice" ->
                   {[path |-> Append(stack, Itoa(i - 1)), kind |-> "element"]}
                   \cup Stores(Elem(typ), c[i], Append(stack, Itoa(i - 1))))
         \cup StoresAll(typ, c, stack, i + 1)

\* What d.Decode(out) has written into out when it returns.
Decoded(b, out) == IF b.k \in {"invalid", "eof"} THEN {} ELSE Stores(out, b, <<>>)

\* d.Decode(out): the body is scanned to the end of its first value before
\* anything is decoded; of the errors saved while decoding, the first one is
\* returned.
Decode(b, out, strict) ==
    IF b.k = "invalid" THEN SyntaxError
    ELSE IF b.k = "eof" THEN ErrUnexpectedEOF
    ELSE LET errs == Unmarshal(out, b, strict, "", <<>>) IN
         IF errs = <<>> THEN Nil ELSE errs[1]

----------------------------------------------------------------------------
\* decodeJSON (httpjson.go:180-207). out names the type of the variable the
\* caller passes the address of; the walker's pointer loop strips that
\* address again. The outcomes are [err, walked]: the error returned (or a
\* panic) and whether findExtraKeysGeneric was called.

Panic == [type |-> "panic"]

\* The second Decode, into m := map[string]any{}: it succeeds when the
\* body is an object (or null).
DecodeMap(b) == b.k \in {"object", "null"}

\* decodeJSON with DisallowUnknownFields set when disallow holds, and with
\* the error of the strict decode joined in front of the diagnostics when
\* keep holds: the slips the properties below are checked to notice.
decodeJSONWithAfter(b, out, lenient, keep, err) ==
    IF err = Nil THEN {[err |-> Nil, walked |-> FALSE]}
    ELSE IF lenient THEN {[err |-> err, walked |-> FALSE]}
    ELSE IF Contains(err, UnknownFieldMarker) /\ DecodeMap(b)
    THEN {[err |-> IF w.panic THEN Panic
                   ELSE IF w.out = <<>> THEN err
                   ELSE IF keep THEN Join(<<err>> \o AsErrors(w.out))
                   ELSE Join(AsErrors(w.out)),
           walked |-> TRUE] : w \in findExtraKeysGeneric(out, Parse(b), "")}
    ELSE {[err |-> err, walked |-> FALSE]}

decodeJSONWith(b, out, lenient, disallow, keep) ==
    decodeJSONWithAfter(b, out, lenient, keep, Decode(b, out, disallow))

\* d.DisallowUnknownFields() outside of `if !lenient`.
decodeJSON_DisallowsAlways(b, out, lenient) ==
    decodeJSONWith(b, out, lenient, TRUE, FALSE)

\* d.DisallowUnknownFields() never called.
decodeJSON_DisallowsNever(b, out, lenient) ==
    decodeJSONWith(b, out, lenient, FALSE, FALSE)

\* return errors.Join(err, err2) in place of return err2.
decodeJSON_KeepsDecodeError(b, out, lenient) ==
    decodeJSONWith(b, out, lenient, ~lenient, TRUE)

\* What decodeJSON returns when d.Decode(out) has returned err
\* (httpjson.go:186-206).
decodeJSONAfter(b, out, lenient, err) ==
    IF err = Nil THEN {[err |-> Nil, walked |-> FALSE]}
    ELSE IF lenient THEN {[err |-> err, walked |-> FALSE]}
    ELSE IF Contains(err, UnknownFieldMarker)
    THEN IF DecodeMap(b)
         THEN LET m == IF b.k = "null" THEN Parse(Leaf("object")) ELSE Parse(b) IN
              {[err |-> IF w.panic THEN Panic
                        ELSE IF Join(AsErrors(w.out)) # Nil THEN Join(AsErrors(w.out))
                        ELSE err,
                walked |-> TRUE] : w \in findExtraKeysGeneric(out, m, "")}
         ELSE {[err |-> err, walked |-> FALSE]}
    ELSE {[err |-> err, walked |-> FALSE]}

\* decodeJSON that returns nil when the walker ran and found nothing.
decodeJSONTrusting(b, out, lenient, err) ==
    {[err |-> IF r.walked /\ r.err = err THEN Nil ELSE r.err, walked |-> r.walked] :
        r \in decodeJSONAfter(b, out, lenient, err)}

decodeJSON_TrustsWalker(b, out, lenient) ==
    decodeJSONTrusting(b, out, lenient, Decode(b, out, ~lenient))

decodeJSON(b, out, lenient) ==
    decodeJSONAfter(b, out, lenient, Decode(b, out, ~lenient))

\* fmt.Errorf("failed to read server response: %w", err)
FailedToRead(err) ==
    [type |-> "*fmt.wrapError", msg |-> <<"failed to read server response: ">>, err |-> err]

\* The error of closing the body comes before the error of reading it.
readResponse_CloseErrorFirst(rerr, cerr) ==
    IF cerr # Nil THEN FailedToRead(cerr)
    ELSE IF rerr # Nil THEN FailedToRead(rerr)
    ELSE Nil

\* b, err := io.ReadAll(resp.Body)
\* if err2 := resp.Body.Close(); err == nil { err = err2 }
\* if err != nil { return fmt.Errorf("failed to read server response: %w", err) }
readResponse(rerr, cerr) ==
    IF rerr # Nil THEN FailedToRead(rerr)
    ELSE IF cerr # Nil THEN FailedToRead(cerr)
    ELSE Nil

\* Client.decodeResponse that returns the error of decodeJSON as it is.
decodeResponse_BareError(b, code, out, lenient) ==
    {[err |-> r.err, walked |-> r.walked] : r \in decodeJSON(b, out, lenient)}

\* Client.decodeResponse (httpjson.go:166-178), once the body b is read.
decodeResponse(b, code, out, lenient) ==
    {[err |-> IF r.err = Panic THEN Panic
              ELSE IF r.err # Nil THEN Join(<<r.err, HTTPError(b, code, TRUE)>>)
              ELSE Nil,
      walked |-> r.walked] : r \in decodeJSON(b, out, lenient)}

----------------------------------------------------------------------------
VARIABLES
    pc,       \* "call": the inputs are chosen; "done": the call has ended;
              \* in DecodeResponse "read", "loop", "join", "done"
    t,        \* the target type
    value,    \* the parsed generic value handed to the walker
    prefix,   \* the path prefix handed to the walker
    body,     \* the body of the response
    status,   \* the status code of the response
    Lenient,  \* Client.Lenient
    walked,   \* whether the call ran findExtraKeysGeneric
    decoded,  \* what the call wrote into each of its outputs
    outs,     \* the types of the outputs of DecodeResponse
    outIndex, \* i, the index of the loop over the outputs
    outErrs,  \* errs, the errors DecodeResponse has collected
    res,      \* the index DecodeResponse returns
    readErr,  \* the error io.ReadAll(resp.Body) returns
    closeErr, \* the error resp.Body.Close() returns
    calls,    \* the calls made on the body and of decodeJSON, in order
    result,   \* the outcome of the call
    doPc,     \* Client.Do: "set", "range", "sent"; "idle" when it does not run
    reqHeader0, \* req.Header when Client.Do is called
    reqHeader,  \* req.Header
    hdr,      \* the headers of the caller
    ranged,   \* the keys of hdr the range loop has visited
    capPc,    \* Capture: "start", "sendErr", "failed", "open", "sendRecord";
              \* "idle" when no round trip runs
    capacity, \* cap(c.C)
    transportFails, \* c.Transport.RoundTrip returns no response and an error
    sentBody, \* the bytes of the body of the response
    wire,     \* the bytes of the body that were not read yet
    content,  \* captureBody.content
    captureErr, \* captureBody.err
    got,      \* the bytes the caller has read from resp.Body
    chanC,    \* the Records in the buffer of c.C
    received, \* the Records that were received from c.C
    closeCalls \* the number of calls of resp.Body.Close()

\* The variables of decoding a response, and those of Client.Do.
decodeVars == <<pc, t, value, prefix, body, status, Lenient, walked, decoded,
                outs, outIndex, outErrs, res, readErr, closeErr, calls, result>>
doVars == <<doPc, reqHeader0, reqHeader, hdr, ranged>>

captureVars == <<capPc, capacity, transportFails, sentBody, wire, content, captureErr,
                 got, chanC, received, closeCalls>>

vars == <<decodeVars, doVars, captureVars>>

\* The variables of DecodeResponse.
loopVars == <<outs, outIndex, outErrs, res>>
NoLoop == outs = <<>> /\ outIndex = 0 /\ outErrs = <<>> /\ res = -1

\* What the body of the response does when it is read and closed.
ioVars == <<readErr, closeErr>>
\* The body is read and closed without error.
BodyReads == readErr = Nil /\ closeErr = Nil /\ calls = <<>>

\* Header keys in canonical form, and http.Header as a function from them
\* to the list of values; a key that is not set has no value.
CanonicalKeys == {"Content-Type", "X-Test"}
NoHeader == [k \in CanonicalKeys |-> <<>>]

\* No round trip of Capture is running.
NoCapture ==
    /\ capPc = "idle"
    /\ capacity = 0
    /\ transportFails = FALSE
    /\ sentBody = <<>>
    /\ wire = <<>>
    /\ content = <<>>
    /\ captureErr = Nil
    /\ got = <<>>
    /\ chanC = <<>>
    /\ received = <<>>
    /\ closeCalls = 0

\* Client.Do is not running.
NoDo ==
    /\ doPc = "idle"
    /\ reqHeader0 = NoHeader
    /\ reqHeader = NoHeader
    /\ hdr = <<>>
    /\ ranged = {}

WalkerTypes == DOMAIN TypeTable
Prefixes == {"", "Nested"}

InitWalk ==
    /\ pc = "call"
    /\ t \in WalkerTypes
    /\ value \in {Parse(d) : d \in Docs(Vocabulary(t)) \cup TestBodies(t)}
    /\ prefix \in Prefixes
    /\ body = Leaf("null")
    /\ status = 200
    /\ Lenient = FALSE
    /\ walked = FALSE
    /\ decoded = <<>>
    /\ NoLoop
    /\ BodyReads
    /\ NoDo
    /\ NoCapture
    /\ result = Returns(<<>>)

\* A call of findExtraKeysGeneric(t, value, prefix).
Walk ==
    /\ pc = "call"
    /\ result' \in findExtraKeysGeneric(t, value, prefix)
    /\ walked' = TRUE
    /\ pc' = "done"
    /\ UNCHANGED <<t, value, prefix, body, status, Lenient, decoded, loopVars,
                   ioVars, calls, doVars, captureVars>>

\* The same call once more, after the first one has returned.
WalkAgain ==
    /\ pc = "done"
    /\ ~result.panic
    /\ result' \in findExtraKeysGeneric(t, value, prefix)
    /\ pc' = "again"
    /\ UNCHANGED <<t, value, prefix, body, status, Lenient, walked, decoded, loopVars,
                   ioVars, calls, doVars, captureVars>>

NextWalk == Walk \/ WalkAgain

SpecWalk == InitWalk /\ [][NextWalk]_vars

----------------------------------------------------------------------------
\* Client.Get and Client.Post: the response of the server is decoded by
\* Client.decodeResponse into a variable of type t.

Targets == {"NestedStruct", "[]NestedStruct", "TestStruct", "Node", "Example",
            "map[string]string", "WithMap", "WithAny", "Tricky", "Out", "WithArray"}
StatusCodes == {200, 400}

InitGet ==
    /\ pc = "call"
    /\ t \in Targets
    /\ body \in Bodies(Vocabulary(t)) \cup TestBodies(t)
    /\ status \in StatusCodes
    /\ Lenient \in BOOLEAN
    /\ value = Leaf("nil")
    /\ prefix = ""
    /\ walked = FALSE
    /\ decoded = <<{}>>
    /\ NoLoop
    /\ BodyReads
    /\ NoDo
    /\ NoCapture
    /\ result = Nil

\* return c.decodeResponse(resp, out)
Get ==
    /\ pc = "call"
    /\ IF readResponse(readErr, closeErr) # Nil
       THEN /\ result' = readResponse(readErr, closeErr)
            /\ calls' = <<"ReadAll", "Close">>
            /\ UNCHANGED <<walked, decoded>>
       ELSE \E r \in decodeResponse(body, status, t, Lenient) :
               /\ result' = r.err
               /\ walked' = r.walked
               /\ decoded' = <<Decoded(body, t)>>
               /\ calls' = <<"ReadAll", "Close", "decodeJSON">>
    /\ pc' = "done"
    /\ UNCHANGED <<t, value, prefix, body, status, Lenient, loopVars, ioVars, doVars, captureVars>>

NextGet == Get

SpecGet == InitGet /\ [][NextGet]_vars

----------------------------------------------------------------------------
\* DecodeResponse(resp, out...) (httpjson.go:142-164): the body is read,
\* the outputs are tried in turn, and the errors are joined.

OutTypes == {"Message", "Fallback"}
DecodeKeys == {"message", "error"}
MaxOuts == 2

InitDecode ==
    /\ pc = "read"
    /\ outs \in UNION {[1..n -> OutTypes] : n \in 0..MaxOuts}
    /\ body \in Bodies(DecodeKeys)
    /\ status \in StatusCodes
    /\ t = "interface {}"
    /\ value = Leaf("nil")
    /\ prefix = ""
    /\ Lenient = FALSE
    /\ walked = FALSE
    /\ decoded = [n \in 1..Len(outs) |-> {}]
    /\ outIndex = 0
    /\ outErrs = <<>>
    /\ res = -1
    /\ BodyReads
    /\ NoDo
    /\ NoCapture
    /\ result = Nil

\* b, err := io.ReadAll(resp.Body); resp.Body.Close(); the error of either
\* is returned with index -1.
ReadAll ==
    /\ pc = "read"
    /\ calls' = <<"ReadAll", "Close">>
    /\ IF readResponse(readErr, closeErr) # Nil
       THEN /\ result' = readResponse(readErr, closeErr)
            /\ pc' = "done"
       ELSE /\ pc' = "loop"
            /\ UNCHANGED result
    /\ UNCHANGED <<t, value, prefix, body, status, Lenient, walked, decoded,
                   loopVars, ioVars, doVars, captureVars>>

\* One iteration that goes on to the next output after a successful decode.
TryOutput_NoBreak ==
    /\ pc = "loop"
    /\ outIndex < Len(outs)
    /\ \E r \in decodeJSON(body, outs[outIndex + 1], FALSE) :
          /\ decoded' = [decoded EXCEPT ![outIndex + 1] = Decoded(body, outs[outIndex + 1])]
          /\ walked' = (walked \/ r.walked)
          /\ IF r.err = Panic
             THEN /\ result' = Panic
                  /\ pc' = "done"
                  /\ UNCHANGED <<outIndex, outErrs, res>>
             ELSE IF r.err = Nil
             THEN /\ res' = outIndex
                  /\ outIndex' = outIndex + 1
                  /\ UNCHANGED <<pc, outErrs, result>>
             ELSE /\ outErrs' = Append(outErrs, WrapOption(outIndex, r.err))
                  /\ outIndex' = outIndex + 1
                  /\ UNCHANGED <<pc, res, result>>
    /\ calls' = Append(calls, "decodeJSON")
    /\ UNCHANGED <<t, value, prefix, body, status, Lenient, outs, ioVars, doVars, captureVars>>

\* One iteration of `for i := range out`: decodeJSON(b, out[i], false).
TryOutput ==
    /\ pc = "loop"
    /\ outIndex < Len(outs)
    /\ \E r \in decodeJSON(body, outs[outIndex + 1], FALSE) :
          /\ decoded' = [decoded EXCEPT ![outIndex + 1] = Decoded(body, outs[outIndex + 1])]
          /\ walked' = (walked \/ r.walked)
          /\ IF r.err = Panic
             THEN /\ result' = Panic
                  /\ pc' = "done"
                  /\ UNCHANGED <<outIndex, outErrs, res>>
             ELSE IF r.err = Nil
             THEN /\ res' = outIndex
                  /\ pc' = "join"
                  /\ UNCHANGED <<outIndex, outErrs, result>>
             ELSE /\ outErrs' = Append(outErrs, WrapOption(outIndex, r.err))
                  /\ outIndex' = outIndex + 1
                  /\ UNCHANGED <<pc, res, result>>
    /\ calls' = Append(calls, "decodeJSON")
    /\ UNCHANGED <<t, value, prefix, body, status, Lenient, outs, ioVars, doVars, captureVars>>

\* The loop has run over all the outputs.
LoopEnd ==
    /\ pc = "loop"
    /\ outIndex = Len(outs)
    /\ pc' = "join"
    /\ UNCHANGED <<t, value, prefix, body, status, Lenient, walked, decoded,
                   loopVars, ioVars, calls, result, doVars, captureVars>>

\* The status Error has PrintBody set whatever the decoding did.
Return_AlwaysPrintsBody ==
    /\ pc = "join"
    /\ result' = Join(IF Len(outErrs) # 0 \/ status >= 400
                      THEN Append(outErrs, HTTPError(body, status, TRUE))
                      ELSE outErrs)
    /\ pc' = "done"
    /\ UNCHANGED <<t, value, prefix, body, status, Lenient, walked, decoded,
                   loopVars, ioVars, calls, doVars, captureVars>>

\* The status Error is appended, and the errors are joined and returned.
Return ==
    /\ pc = "join"
    /\ result' = Join(IF Len(outErrs) # 0 \/ status >= 400
                      THEN Append(outErrs, HTTPError(body, status, Len(outErrs) # 0))
                      ELSE outErrs)
    /\ pc' = "done"
    /\ UNCHANGED <<t, value, prefix, body, status, Lenient, walked, decoded,
                   loopVars, ioVars, calls, doVars, captureVars>>

NextDecode == ReadAll \/ TryOutput \/ LoopEnd \/ Return

SpecDecode == InitDecode /\ [][NextDecode]_vars

----------------------------------------------------------------------------
\* The three ways to decode a response: Client.Get and Client.Post, which
\* end in Client.decodeResponse, and DecodeResponse.

InitClient == InitGet \/ InitDecode

NextClient == Get \/ ReadAll \/ TryOutput \/ LoopEnd \/ Return

SpecClient == InitClient /\ [][NextClient]_vars

----------------------------------------------------------------------------
\* Responses whose body may fail to be read or to be closed, handed to
\* Client.Get and to DecodeResponse.

ErrRead == [type |-> "*errors.errorString", msg |-> <<"connection reset by peer">>]
ErrClose == [type |-> "*errors.errorString", msg |-> <<"close failed">>]

\* The bodies {"message":"s"}, {"error":"s"}, null and one that is no JSON.
ReadBodies ==
    {Object(<<Member("message", Leaf("string"))>>),
     Object(<<Member("error", Leaf("string"))>>),
     Leaf("null"), Leaf("invalid")}

InitRead ==
    /\ pc \in {"call", "read"}
    /\ outs \in IF pc = "call" THEN {<<>>}
                ELSE UNION {[1..n -> OutTypes] : n \in 0..MaxOuts}
    /\ t \in IF pc = "call" THEN OutTypes ELSE {"interface {}"}
    /\ body \in ReadBodies
    /\ status \in StatusCodes
    /\ Lenient \in IF pc = "call" THEN BOOLEAN ELSE {FALSE}
    /\ readErr \in {Nil, ErrRead}
    /\ closeErr \in {Nil, ErrClose}
    /\ calls = <<>>
    /\ value = Leaf("nil")
    /\ prefix = ""
    /\ walked = FALSE
    /\ decoded = IF pc = "call" THEN <<{}>> ELSE [n \in 1..Len(outs) |-> {}]
    /\ outIndex = 0
    /\ outErrs = <<>>
    /\ res = -1
    /\ NoDo
    /\ NoCapture
    /\ result = Nil

SpecRead == InitRead /\ [][NextClient]_vars

----------------------------------------------------------------------------
\* Client.Do(req, hdr) (httpjson.go:110-130).

\* No response is being decoded.
NoDecode ==
    /\ pc = "idle"
    /\ t = "interface {}"
    /\ value = Leaf("nil")
    /\ prefix = ""
    /\ body = Leaf("null")
    /\ status = 200
    /\ Lenient = FALSE
    /\ walked = FALSE
    /\ decoded = <<>>
    /\ NoLoop
    /\ BodyReads
    /\ result = Nil

DefaultContentType == "application/json; charset=utf-8"

\* textproto.CanonicalMIMEHeaderKey for the keys of the model.
CanonicalMIMEHeaderKey(key) ==
    CASE key = "content-type" -> "Content-Type"
      [] key = "x-test" -> "X-Test"
      [] OTHER -> key

\* http.Header.Set, Add and Del.
HeaderSet(h, key, v) == [h EXCEPT ![CanonicalMIMEHeaderKey(key)] = <<v>>]
HeaderAdd(h, key, v) == [h EXCEPT ![CanonicalMIMEHeaderKey(key)] = Append(@, v)]
HeaderDel(h, key) == [h EXCEPT ![CanonicalMIMEHeaderKey(key)] = <<>>]

\* for _, vv := range v { req.Header.Add(k, vv) }
RECURSIVE HeaderAddAll(_, _, _)
HeaderAddAll(h, key, v) ==
    IF v = <<>> THEN h ELSE HeaderAddAll(HeaderAdd(h, key, Head(v)), key, Tail(v))

\* The keys the caller may use, as written, and the lists of values.
CallerKeys == {"Content-Type", "content-type", "X-Test"}
ValueLists == {<<>>, <<"v1">>, <<"v1", "v2">>}

InitDo ==
    /\ NoDecode
    /\ NoCapture
    /\ doPc = "set"
    /\ reqHeader0 \in [CanonicalKeys -> {<<>>, <<"old">>}]
    /\ reqHeader = reqHeader0
    /\ hdr \in UNION {[keys -> ValueLists] : keys \in SUBSET CallerKeys}
    /\ ranged = {}

\* req.Header.Set("Content-Type", "application/json; charset=utf-8")
DoSetContentType ==
    /\ doPc = "set"
    /\ reqHeader' = HeaderSet(reqHeader, "Content-Type", DefaultContentType)
    /\ doPc' = "range"
    /\ UNCHANGED <<decodeVars, reqHeader0, hdr, ranged, captureVars>>

\* One iteration of `for k, v := range hdr`, in any order of the keys.
DoRange ==
    /\ doPc = "range"
    /\ \E key \in DOMAIN hdr \ ranged :
          /\ reqHeader' = CASE Len(hdr[key]) = 0 -> HeaderDel(reqHeader, key)
                             [] Len(hdr[key]) = 1 -> HeaderSet(reqHeader, key, hdr[key][1])
                             [] OTHER -> HeaderAddAll(reqHeader, key, hdr[key])
          /\ ranged' = ranged \cup {key}
    /\ UNCHANGED <<decodeVars, doPc, reqHeader0, hdr, captureVars>>

\* return client.Do(req)
DoSend ==
    /\ doPc = "range"
    /\ ranged = DOMAIN hdr
    /\ doPc' = "sent"
    /\ UNCHANGED <<decodeVars, reqHeader0, reqHeader, hdr, ranged, captureVars>>

NextDo == DoSetContentType \/ DoRange \/ DoSend

SpecDo == InitDo /\ [][NextDo]_vars

----------------------------------------------------------------------------
\* roundtrippers.Capture (roundtrippers/example_test.go:169-226): one round
\* trip through a Capture whose channel C other round trips may have filled,
\* the caller that reads and closes the body, and the receiver of C.

\* Largest number of bytes of a body, of bytes one Read returns, of calls of
\* Close, and largest capacity of C.
MaxBytes == 3
MaxChunk == 2
MaxCloses == 2
MaxCap == 1

Bytes == {"a", "b"}
ErrTransport == [type |-> "*url.Error", msg |-> <<"unsupported protocol scheme">>]
ErrBodyRead == [type |-> "*errors.errorString", msg |-> <<"unexpected EOF">>]
ErrBodyClosed == [type |-> "*errors.errorString", msg |-> <<"http: read on closed response body">>]
EOF == [type |-> "*errors.errorString", msg |-> <<"EOF">>]

\* The Record of another round trip through the same Capture.
OtherRecord == [Request |-> "other", Response |-> Nil, Err |-> ErrTransport]
\* Record{Request: req, Err: err}
ErrRecord == [Request |-> "req", Response |-> Nil, Err |-> ErrTransport]
\* Record{Request: l.resp.Request, Response: l.resp, Err: l.err} with
\* l.resp.Body = io.NopCloser(l.content)
BodyRecord == [Request |-> "req", Response |-> [Body |-> content], Err |-> captureErr]

InitCapture ==
    /\ NoDecode
    /\ NoDo
    /\ capPc = "start"
    /\ capacity \in 0..MaxCap
    /\ transportFails \in BOOLEAN
    /\ sentBody \in UNION {[1..n -> Bytes] : n \in 0..MaxBytes}
    /\ wire = sentBody
    /\ content = <<>>
    /\ captureErr = Nil
    /\ got = <<>>
    /\ chanC \in {<<>>} \cup (IF capacity > 0 THEN {<<OtherRecord>>} ELSE {})
    /\ received = <<>>
    /\ closeCalls = 0

\* resp, err := c.Transport.RoundTrip(req): with a response, its body is
\* wrapped and RoundTrip returns; without one, the Record is to be sent.
CaptureRoundTrip ==
    /\ capPc = "start"
    /\ capPc' = IF transportFails THEN "sendErr" ELSE "open"
    /\ content' = <<>>
    /\ UNCHANGED <<decodeVars, doVars, capacity, transportFails, sentBody, wire,
                   captureErr, got, chanC, received, closeCalls>>

\* c.C <- Record{Request: req, Err: err} into the buffer of C.
CaptureSendErr ==
    /\ capPc = "sendErr"
    /\ Len(chanC) < capacity
    /\ chanC' = Append(chanC, ErrRecord)
    /\ capPc' = "failed"
    /\ UNCHANGED <<decodeVars, doVars, capacity, transportFails, sentBody, wire,
                   content, captureErr, got, received, closeCalls>>

\* What body.Read(p) may return: some of the bytes that are left, the last
\* of them with io.EOF, or an error; nothing of a body that is closed.
ReadOutcomes ==
    IF closeCalls > 0 THEN {[n |-> 0, err |-> ErrBodyClosed]}
    ELSE {[n |-> k, err |-> Nil] : k \in 1..(IF Len(wire) < MaxChunk THEN Len(wire) ELSE MaxChunk)}
         \cup (IF Len(wire) <= MaxChunk THEN {[n |-> Len(wire), err |-> EOF]} ELSE {})
         \cup {[n |-> 0, err |-> ErrBodyRead]}

\* A Read that keeps the last chunk only.
captureBody_Read_KeepsLastChunk ==
    /\ capPc = "open"
    /\ \E o \in ReadOutcomes :
          /\ content' = SubSeq(wire, 1, o.n)
          /\ got' = got \o SubSeq(wire, 1, o.n)
          /\ wire' = SubSeq(wire, o.n + 1, Len(wire))
          /\ captureErr' = IF o.err # Nil /\ o.err # EOF /\ captureErr = Nil
                           THEN o.err ELSE captureErr
    /\ UNCHANGED <<decodeVars, doVars, capPc, capacity, transportFails, sentBody,
                   chanC, received, closeCalls>>

\* (*captureBody).Read: the bytes read are written to content and given to
\* the caller; the first error that is not io.EOF is kept.
captureBody_Read ==
    /\ capPc = "open"
    /\ \E o \in ReadOutcomes :
          /\ content' = content \o SubSeq(wire, 1, o.n)
          /\ got' = got \o SubSeq(wire, 1, o.n)
          /\ wire' = SubSeq(wire, o.n + 1, Len(wire))
          /\ captureErr' = IF o.err # Nil /\ o.err # EOF /\ captureErr = Nil
                           THEN o.err ELSE captureErr
    /\ UNCHANGED <<decodeVars, doVars, capPc, capacity, transportFails, sentBody,
                   chanC, received, closeCalls>>

\* A Close that closes the body and sends nothing.
captureBody_Close_SendsNothing ==
    /\ capPc = "open"
    /\ closeCalls < MaxCloses
    /\ closeCalls' = closeCalls + 1
    /\ UNCHANGED <<decodeVars, doVars, capPc, capacity, transportFails, sentBody, wire,
                   content, captureErr, got, chanC, received>>

\* (*captureBody).Close up to its send: l.body.Close() and
\* l.resp.Body = io.NopCloser(l.content).
captureBody_Close ==
    /\ capPc = "open"
    /\ closeCalls < MaxCloses
    /\ closeCalls' = closeCalls + 1
    /\ capPc' = "sendRecord"
    /\ UNCHANGED <<decodeVars, doVars, capacity, transportFails, sentBody, wire,
                   content, captureErr, got, chanC, received>>

\* l.c <- Record{...} into the buffer of C; Close returns.
CaptureSendRecord ==
    /\ capPc = "sendRecord"
    /\ Len(chanC) < capacity
    /\ chanC' = Append(chanC, BodyRecord)
    /\ capPc' = "open"
    /\ UNCHANGED <<decodeVars, doVars, capacity, transportFails, sentBody, wire,
                   content, captureErr, got, received, closeCalls>>

\* <-ch by the receiver: from the buffer, or from the sender that waits
\* when C has no buffer.
Receive ==
    /\ \/ /\ chanC # <<>>
          /\ received' = Append(received, Head(chanC))
          /\ chanC' = Tail(chanC)
          /\ UNCHANGED capPc
       \/ /\ capacity = 0
          /\ capPc = "sendErr"
          /\ received' = Append(received, ErrRecord)
          /\ capPc' = "failed"
          /\ UNCHANGED chanC
       \/ /\ capacity = 0
          /\ capPc = "sendRecord"
          /\ received' = Append(received, BodyRecord)
          /\ capPc' = "open"
          /\ UNCHANGED chanC
    /\ UNCHANGED <<decodeVars, doVars, capacity, transportFails, sentBody, wire,
                   content, captureErr, got, closeCalls>>

NextCapture ==
    \/ CaptureRoundTrip
    \/ CaptureSendErr
    \/ captureBody_Read
    \/ captureBody_Close
    \/ CaptureSendRecord
    \/ Receive

SpecCapture == InitCapture /\ [][NextCapture]_vars

\* The round trip where the goroutines run, the caller closes the body it
\* got, and the receiver goes on receiving from C.
CloseOnce == closeCalls = 0 /\ captureBody_Close

SpecCaptureLive ==
    /\ InitCapture
    /\ [][NextCapture]_vars
    /\ WF_vars(CaptureRoundTrip)
    /\ WF_vars(CaptureSendErr)
    /\ WF_vars(CaptureSendRecord)
    /\ WF_vars(CloseOnce)
    /\ WF_vars(Receive)

----------------------------------------------------------------------------
\* What the properties below speak of.

\* The errors an error value is joined from, as errors.As and errors.Is
\* visit them.
RECURSIVE Constituents(_), ConstituentsFrom(_, _)
Constituents(err) ==
    IF err.type = "nil" THEN <<>>
    ELSE IF err.type = "*errors.joinError" THEN ConstituentsFrom(err.errs, 1)
    ELSE IF err.type = "*fmt.wrapError" THEN <<err>> \o Constituents(err.err)
    ELSE <<err>>
ConstituentsFrom(errs, i) ==
    IF i > Len(errs) THEN <<>>
    ELSE Constituents(errs[i]) \o ConstituentsFrom(errs, i + 1)

HasType(err, type) ==
    \E i \in 1..Len(Constituents(err)) : Constituents(err)[i].type = type

WellFormed(b) == b.k \notin {"invalid", "eof"}

\* The error of the strict decode of the body into the target.
StrictError == Decode(body, t, TRUE)
IsUnknownKeyError(err) == err.type = "*errors.errorString" /\ err.msg[1] = UnknownFieldMarker

\* doc has, at a struct reached through fields the decoder decodes (and the
\* elements of slices and maps), a key that matches none of its fields.
RECURSIVE HasUnmatchedKey(_, _)
HasUnmatchedKey(typ, doc) ==
    LET d == Deref(typ) IN
    CASE Kind(d) = "Struct" /\ doc.k = "object" ->
             \E i \in 1..Len(doc.c) :
                 LET f == DecoderField(d, doc.c[i].key) IN
                 \/ f = 0
                 \/ f # 0 /\ HasUnmatchedKey(TypeTable[d].Fields[f].Type, doc.c[i].val)
      [] Kind(d) = "Map" /\ doc.k = "object" ->
             \E i \in 1..Len(doc.c) : HasUnmatchedKey(Elem(d), doc.c[i].val)
      [] Kind(d) = "Slice" /\ doc.k = "array" ->
             \E i \in 1..Len(doc.c) : HasUnmatchedKey(Elem(d), doc.c[i])
      [] OTHER -> FALSE

\* Every value of doc that a field, element or map entry of typ receives has
\* the JSON kind that typ wants there (null fits everywhere).
RECURSIVE Compatible(_, _)
Compatible(typ, doc) ==
    LET d == Deref(typ) IN
    IF doc.k = "null" \/ Kind(d) = "Interface" THEN TRUE
    ELSE CASE Kind(d) = "Struct" ->
                  /\ doc.k = "object"
                  /\ \A i \in 1..Len(doc.c) :
                        LET f == DecoderField(d, doc.c[i].key) IN
                        f # 0 => Compatible(TypeTable[d].Fields[f].Type, doc.c[i].val)
           [] Kind(d) = "Map" ->
                  doc.k = "object" /\ \A i \in 1..Len(doc.c) : Compatible(Elem(d), doc.c[i].val)
           [] Kind(d) = "Slice" ->
                  doc.k = "array" /\ \A i \in 1..Len(doc.c) : Compatible(Elem(d), doc.c[i])
           [] Kind(d) = "String" -> doc.k = "string"
           [] Kind(d) = "Int" -> doc.k = "number"

\* val has the containers typ has (a map for a struct or a map, a list for a
\* slice) and, in every map met for a struct, only wire keys of the struct.
RECURSIVE Conforms(_, _)
Conforms(typ, val) ==
    LET d == Deref(typ) IN
    IF val.k = "nil" THEN TRUE
    ELSE CASE Kind(d) = "Struct" ->
                  /\ val.k = "map[string]interface {}"
                  /\ \A i \in 1..Len(val.c) :
                        \E e \in validFields(d) :
                            /\ e[1] = val.c[i].key
                            /\ \A f \in FieldByName(d, e[2]) :
                                  Conforms(TypeTable[d].Fields[f].Type, val.c[i].val)
           [] Kind(d) = "Map" ->
                  /\ val.k = "map[string]interface {}"
                  /\ \A i \in 1..Len(val.c) : Conforms(Elem(d), val.c[i].val)
           [] Kind(d) = "Slice" ->
                  /\ val.k = "[]interface {}"
                  /\ \A i \in 1..Len(val.c) : Conforms(Elem(d), val.c[i])
           [] OTHER -> val.k \in {"string", "json.Number"}

----------------------------------------------------------------------------
\* C1: the walker runs only after an unrecognized-key failure: when the
\* strict decode fails with a syntax error or a type-mismatch error, the
\* walker is not run and the returned error holds no UnknownFieldError.
C1_WalkerOnlyOnUnknownKey ==
    (/\ pc = "done"
     /\ ~Lenient
     /\ StrictError.type \in {"*json.SyntaxError", "*json.UnmarshalTypeError"})
    => ~walked /\ ~HasType(result, "*httpjson.UnknownFieldError")

\* C2: with Lenient the walker never runs and no UnknownFieldError is ever
\* returned, and a well-formed body that is type-compatible with the target
\* decodes without error whatever keys it carries.
C2_LenientIgnoresUnknownKeys ==
    (pc = "done" /\ Lenient)
    => /\ ~walked
       /\ ~HasType(result, "*httpjson.UnknownFieldError")
       /\ (WellFormed(body) /\ Compatible(t, body)) => result = Nil

\* A lenient Get of a type-compatible body with a key no field matches.
C2_Witness ==
    /\ pc = "done"
    /\ Lenient
    /\ HasUnmatchedKey(t, body)
    /\ Compatible(t, body)
    /\ result = Nil

\* C3 as claimed: a strict decode of a body with a key no field matches
\* fails, and the failure is neither a syntax error nor a type-mismatch error.
C3_UnknownKeyFailsDistinctly ==
    (/\ pc = "done"
     /\ ~Lenient
     /\ WellFormed(body)
     /\ HasUnmatchedKey(t, body)
     /\ result # Panic)
    => /\ result # Nil
       /\ ~HasType(result, "*json.SyntaxError")
       /\ ~HasType(result, "*json.UnmarshalTypeError")

\* C3, amended: a strict decode of a well-formed body with a key no field
\* matches (not even case-insensitively) never succeeds, and when that key is
\* the first error the decoder meets, the failure holds neither a syntax error
\* nor a type-mismatch error.
C3_UnknownKeyNeverDecodes ==
    (/\ pc = "done"
     /\ ~Lenient
     /\ WellFormed(body)
     /\ HasUnmatchedKey(t, body))
    => /\ result # Nil
       /\ IsUnknownKeyError(StrictError)
            => /\ ~HasType(result, "*json.SyntaxError")
               /\ ~HasType(result, "*json.UnmarshalTypeError")

\* A strict Get of a body whose first error is a key no field matches: it
\* fails, and with diagnostics in place of syntax or type-mismatch errors.
C3_Witness ==
    /\ pc = "done"
    /\ ~Lenient
    /\ WellFormed(body)
    /\ HasUnmatchedKey(t, body)
    /\ IsUnknownKeyError(StrictError)
    /\ result # Nil
    /\ HasType(result, "*httpjson.UnknownFieldError")
    /\ ~HasType(result, "*json.UnmarshalTypeError")

\* The outcomes of the walker on the body, as decodeJSON calls it.
WalkOfBody == findExtraKeysGeneric(t, Parse(body), "")

\* C4 as claimed: when the walker produced diagnostics, the returned error
\* still holds the error of the strict decode.
C4_DecodeErrorKept ==
    (pc = "done" /\ walked /\ HasType(result, "*httpjson.UnknownFieldError"))
    => \E i \in 1..Len(Constituents(result)) : Constituents(result)[i] = StrictError

\* C4, amended: when the walker produced diagnostics, the error returned by
\* Get is the join of exactly the walker's diagnostics with the status Error
\* that carries the body; the error of the strict decode is not part of it.
C4_DiagnosticsReplaceDecodeError ==
    (pc = "done" /\ walked /\ \E w \in WalkOfBody : w.out # <<>>)
    => /\ \E w \in WalkOfBody :
             result = Join(<<Join(AsErrors(w.out)), HTTPError(body, status, TRUE)>>)
       /\ \A i \in 1..Len(Constituents(result)) : Constituents(result)[i] # StrictError

\* A strict Get whose error is two diagnostics and the status Error.
C4_Witness ==
    /\ pc = "done"
    /\ walked
    /\ Len(Constituents(result)) = 3
    /\ Constituents(result)[1].type = "*httpjson.UnknownFieldError"
    /\ Constituents(result)[2].type = "*httpjson.UnknownFieldError"
    /\ Constituents(result)[3] = HTTPError(body, status, TRUE)

\* C5: whenever the status is >= 400 the returned error holds a status Error
\* that carries the body, whether the body decoded or not.
C5_StatusErrorAlways ==
    (pc = "done" /\ status >= 400 /\ result # Panic)
    => \E i \in 1..Len(Constituents(result)) :
          /\ Constituents(result)[i].type = "*httpjson.Error"
          /\ Constituents(result)[i].ResponseBody = body
          /\ Constituents(result)[i].StatusCode = status

\* C6: whenever the strict decode fails on an unrecognized key, the returned
\* error holds at least one UnknownFieldError.
C6_UnknownKeyYieldsDiagnostic ==
    (pc = "done" /\ ~Lenient /\ IsUnknownKeyError(StrictError) /\ result # Panic)
    => HasType(result, "*httpjson.UnknownFieldError")

\* C7: for a value with no key outside the shape at any depth, the walker
\* returns no diagnostics.
C7_NoExtraKeysNoDiagnostics ==
    (pc = "done" /\ Conforms(t, value)) => result = Returns(<<>>)

\* C8: for a map shape, walking a mapping with arbitrary keys and values
\* yields no diagnostics.
C8_OpenMapNoDiagnostics ==
    (pc = "done" /\ Kind(Deref(t)) = "Map" /\ value.k = "map[string]interface {}")
    => result = Returns(<<>>)

\* C9: the walker never fails: every call returns a list of diagnostics and
\* none aborts.
C9_WalkerNeverPanics == pc = "done" => ~result.panic

\* C10: a second run of the walker on the same shape and value returns the
\* diagnostics of the first run, in the same order.
C10_SameOrderEveryRun ==
    [][(pc = "done" /\ pc' = "again") => result' = result]_vars

----------------------------------------------------------------------------
\* The types typ is made of: its element and the types of its fields.
Parts(typ) ==
    ({Elem(typ)} \ {""})
    \cup {TypeTable[typ].Fields[i].Type : i \in 1..NumField(typ)}

\* typ holds, within n steps, a map or an interface: a shape that is open
\* to keys or values it does not declare.
RECURSIVE OpenWithin(_, _)
OpenWithin(typ, n) ==
    \/ Kind(typ) \in {"Map", "Interface"}
    \/ n > 0 /\ \E x \in Parts(typ) : OpenWithin(x, n - 1)

\* typ holds a map or an interface at some depth.
OpenShape(typ) == OpenWithin(typ, Cardinality(DOMAIN TypeTable))

\* typ is a struct that is closed at every depth.
ClosedStruct(typ) == Kind(Deref(typ)) = "Struct" /\ ~OpenShape(typ)

\* The wire keys the naming rule gives struct typ: the tag name of every
\* exported field that has one other than "-", and the declared name of
\* every exported field with no tag name.
AcceptedKeys(typ) ==
    {IF f.Tag[1] = "" THEN f.Name ELSE f.Tag[1] :
        f \in {TypeTable[typ].Fields[i] : i \in 1..NumField(typ)}
               \ {g \in {TypeTable[typ].Fields[i] : i \in 1..NumField(typ)} :
                      g.PkgPath # "" \/ g.Tag[1] = "-"}}

\* The members of map m whose key is no wire key of struct typ.
AbsentKeys(typ, m) == {i \in 1..Len(m.c) : m.c[i].key \notin AcceptedKeys(Deref(typ))}

\* m without the members whose key is no wire key of struct typ.
DeclaredPart(typ, m) ==
    LET Declared(e) == e.key \in AcceptedKeys(Deref(typ)) IN
    [k |-> m.k, c |-> SelectSeq(m.c, Declared)]

\* The body {"output":"data"}.
OutputData == [k |-> "object", c |-> <<[key |-> "output", val |-> Leaf("string")]>>]

\* The error of a Get whose walker returned the diagnostics out.
DiagnosticsOfGet(out) == Join(<<Join(AsErrors(out)), HTTPError(body, status, TRUE)>>)

\* C11: when the walker runs at the root for a closed struct and the body is
\* a mapping with exactly one key outside the struct (its other members well
\* shaped), the error holds exactly one diagnostic, whose path is that key
\* and whose type is the runtime type of the key's value; a strict Get of
\* {"output":"data"} into a struct that declares only `different` fails with
\* the one diagnostic (output, string), and the lenient Get succeeds and
\* writes nothing into the struct.
C11_OneUnknownKeyOneDiagnostic ==
    pc = "done" =>
      /\ (/\ walked
          /\ ClosedStruct(t)
          /\ body.k = "object"
          /\ Cardinality(AbsentKeys(t, Parse(body))) = 1
          /\ Conforms(t, DeclaredPart(t, Parse(body))))
         => LET m == Parse(body)
                e == m.c[CHOOSE i \in AbsentKeys(t, m) : TRUE] IN
            result = DiagnosticsOfGet(<<[Field |-> e.key, Type |-> e.val.k]>>)
      /\ (t = "Out" /\ body = OutputData /\ ~Lenient)
         => result = DiagnosticsOfGet(<<[Field |-> "output", Type |-> "string"]>>)
      /\ (t = "Out" /\ body = OutputData /\ Lenient)
         => result = Nil /\ decoded = <<{}>>

\* The strict Get of {"output":"data"} into the struct declaring `different`
\* has failed with its one diagnostic.
C11_Witness ==
    /\ pc = "done"
    /\ t = "Out"
    /\ body = OutputData
    /\ ~Lenient
    /\ walked
    /\ Len(Constituents(result)) = 2
    /\ Constituents(result)[1].Field = "output"

----------------------------------------------------------------------------
\* The field of struct typ that declares wire key key.
FieldOfKey(typ, key) ==
    CHOOSE i \in 1..NumField(typ) :
        LET f == TypeTable[typ].Fields[i] IN
        /\ f.PkgPath = ""
        /\ key = (IF f.Tag[1] = "" THEN f.Name ELSE f.Tag[1])
        /\ f.Tag[1] # "-"

\* val has a mapping wherever typ has a struct and a sequence wherever typ
\* has a slice, at every node reached through declared keys.
RECURSIVE ShapedLike(_, _)
ShapedLike(typ, val) ==
    LET d == Deref(typ) IN
    IF val.k = "nil" THEN TRUE
    ELSE CASE Kind(d) = "Struct" ->
                  /\ val.k = "map[string]interface {}"
                  /\ \A i \in 1..Len(val.c) :
                        val.c[i].key \in AcceptedKeys(d)
                        => ShapedLike(TypeTable[d].Fields[FieldOfKey(d, val.c[i].key)].Type,
                                      val.c[i].val)
           [] Kind(d) = "Slice" ->
                  /\ val.k = "[]interface {}"
                  /\ \A i \in 1..Len(val.c) : ShapedLike(Elem(d), val.c[i])
           [] OTHER -> TRUE

\* The diagnostics the walking rule asks for, for a value shaped like typ:
\* one [Field, Type] for every key that a struct reached through declared
\* keys and sequence elements does not declare, at the path that joins the
\* wire keys with "." and adds "[i]" for element i.
RECURSIVE UnknownKeyPaths(_, _, _)
UnknownKeyPaths(typ, val, pfx) ==
    LET d == Deref(typ) IN
    IF val.k = "nil" THEN {}
    ELSE CASE Kind(d) = "Struct" ->
                  UNION {LET e == val.c[i]
                             path == IF pfx = "" THEN e.key ELSE pfx \o "." \o e.key IN
                         IF e.key \notin AcceptedKeys(d)
                         THEN {[Field |-> path, Type |-> e.val.k]}
                         ELSE UnknownKeyPaths(TypeTable[d].Fields[FieldOfKey(d, e.key)].Type,
                                              e.val, path) :
                         i \in 1..Len(val.c)}
           [] Kind(d) = "Slice" ->
                  UNION {UnknownKeyPaths(Elem(d), val.c[i], pfx \o "[" \o Itoa(i - 1) \o "]") :
                         i \in 1..Len(val.c)}
           [] OTHER -> {}

\* The diagnostics of the walk that has ended, as a set.
Diagnostics == {result.out[i] : i \in 1..Len(result.out)}

\* C12: for a closed struct and a value shaped like it, the walker returns
\* one diagnostic for every undeclared key, at the dot-joined chain of wire
\* keys from the root (after the prefix, when there is one), and no
\* diagnostic for the well-shaped declared members.
C12_NestedKeyDottedPath ==
    (pc = "done" /\ ClosedStruct(t) /\ ShapedLike(t, value))
    => /\ ~result.panic
       /\ Diagnostics = UnknownKeyPaths(t, value, prefix)
       /\ Len(result.out) = Cardinality(Diagnostics)

\* The walk of {"Nested":{"Extra":"s"}} for TestStruct has reported
\* Nested.Extra and nothing else.
C12_Witness ==
    /\ pc = "done"
    /\ t = "TestStruct"
    /\ prefix = ""
    /\ value.k = "map[string]interface {}"
    /\ Len(value.c) = 1
    /\ value.c[1].key = "Nested"
    /\ result = Returns(<<[Field |-> "Nested.Extra", Type |-> "string"]>>)

----------------------------------------------------------------------------
\* typ is a slice that is closed at every depth.
ClosedSlice(typ) == Kind(Deref(typ)) = "Slice" /\ ~OpenShape(typ)

\* The diagnostics of element i of the sequence value for slice type typ.
ElementPaths(typ, i) ==
    UnknownKeyPaths(Elem(Deref(typ)), value.c[i], prefix \o "[" \o Itoa(i - 1) \o "]")

\* C13: for a closed slice and a sequence value shaped like it, the walker
\* returns, element after element, the diagnostics of element i walked for
\* the element type with path prefix[i], i counted from 0; [{"Extra":"s"}]
\* at the root gives [0].Extra, and the element of unnamed_array with the
\* undeclared key Extra3 gives unnamed_array[0].Extra3.
C13_ElementsIndexedFromZero ==
    pc = "done" =>
      /\ (ClosedSlice(t) /\ ShapedLike(t, value) /\ value.k = "[]interface {}")
         => /\ ~result.panic
            /\ Diagnostics = UNION {ElementPaths(t, i) : i \in 1..Len(value.c)}
            /\ Len(result.out) = Cardinality(Diagnostics)
            /\ \A m, n \in 1..Len(result.out) :
                  \A i, j \in 1..Len(value.c) :
                     (/\ result.out[m] \in ElementPaths(t, i)
                      /\ result.out[n] \in ElementPaths(t, j)
                      /\ i < j) => m < n
      /\ (/\ t = "[]NestedStruct"
          /\ prefix = ""
          /\ value = Parse(Array(<<Object(<<Member("Extra", Leaf("string"))>>)>>)))
         => result = Returns(<<[Field |-> "[0].Extra", Type |-> "string"]>>)
      /\ (t = "WithArray" /\ prefix = "" /\ value \in {Parse(d) : d \in TestBodies(t)})
         => result = Returns(<<[Field |-> "unnamed_array[0].Extra3", Type |-> "string"]>>)

\* The walk of a sequence of two elements, the second with an undeclared
\* key, has reported it at index 1.
C13_Witness ==
    /\ pc = "done"
    /\ t = "[]NestedStruct"
    /\ prefix = ""
    /\ value.k = "[]interface {}"
    /\ Len(value.c) = 2
    /\ result = Returns(<<[Field |-> "[1].Extra", Type |-> "string"]>>)

----------------------------------------------------------------------------
\* C14: for a closed struct and a mapping shaped like it, a key is reported
\* as unknown exactly when it is not the tag name (before the first comma)
\* or, with no tag name, the declared name of an exported field not tagged
\* "-"; the declared names Ignored (tagged "-") and secret (unexported) are
\* reported as unknown.
C14_WireKeysOfStruct ==
    (/\ pc = "done"
     /\ ClosedStruct(t)
     /\ ShapedLike(t, value)
     /\ value.k = "map[string]interface {}")
    => /\ ~result.panic
       /\ \A i \in 1..Len(value.c) :
             LET e == value.c[i]
                 path == IF prefix = "" THEN e.key ELSE prefix \o "." \o e.key IN
             [Field |-> path, Type |-> e.val.k] \in Diagnostics
             <=> e.key \notin AcceptedKeys(Deref(t))
       /\ t \in {"Example", "Private"}
             => \A i \in 1..Len(value.c) :
                   value.c[i].key \in {"Ignored", "secret", "Name"}
                   => \E d \in Diagnostics : d.Type = value.c[i].val.k

\* The walk of {"Ignored":"s"} for the struct whose field Ignored is tagged
\* "-" has reported the key Ignored.
C14_Witness ==
    /\ pc = "done"
    /\ t = "Example"
    /\ prefix = ""
    /\ value.k = "map[string]interface {}"
    /\ Len(value.c) = 1
    /\ value.c[1].key = "Ignored"
    /\ result = Returns(<<[Field |-> "Ignored", Type |-> value.c[1].val.k]>>)

----------------------------------------------------------------------------
\* The diagnostics held by the error that was returned.
DiagnosticsOf(err) ==
    {Constituents(err)[i] : i \in {j \in 1..Len(Constituents(err)) :
                                      Constituents(err)[j].type = "*httpjson.UnknownFieldError"}}

\* C15: every diagnostic of the returned error has the text
\*   unknown field <path> of type <runtimeType> with value <runtimeValue>
\* (path and type plain or quoted), and this text is a line of the message
\* of the returned error.
C15_DiagnosticTextWithValue ==
    pc = "done" =>
      \A e \in DiagnosticsOf(result) :
         LET text == UnknownFieldErrorString(e) IN
         /\ Len(text) = 6
         /\ text[1] = "unknown field "
         /\ text[2] \in {e.Field, Quote(e.Field)}
         /\ text[3] = " of type "
         /\ text[4] \in {e.Type, Quote(e.Type)}
         /\ text[5] = " with value "
         /\ \E n \in 1..Len(ErrorLines(result)) : ErrorLines(result)[n] = text

----------------------------------------------------------------------------
\* The outputs the body strictly decodes into, as indexes from 0.
DecodableOutputs == {n \in 0..(Len(outs) - 1) : Decode(body, outs[n + 1], TRUE) = Nil}

\* C16: DecodeResponse returns the smallest index of an output the body
\* strictly decodes into, or -1 when there is none (also when no output is
\* given); the outputs after that index are neither tried nor written.
C16_FirstDecodableOutput ==
    /\ (pc \in {"read", "loop"} /\ res = -1)
       => \A n \in (outIndex + 1)..Len(outs) : decoded[n] = {}
    /\ (pc \in {"join", "done"} /\ result # Panic)
       => /\ res = (IF DecodableOutputs = {} THEN -1
                    ELSE CHOOSE n \in DecodableOutputs :
                             \A m \in DecodableOutputs : n <= m)
          /\ res # -1 => /\ outIndex = res
                         /\ \A n \in (res + 2)..Len(outs) : decoded[n] = {}

\* DecodeResponse has returned 1: the second of two outputs was the first
\* the body decoded into.
C16_Witness ==
    /\ pc = "done"
    /\ Len(outs) = 2
    /\ res = 1
    /\ decoded[2] # {}
    /\ Len(outErrs) = 1

----------------------------------------------------------------------------
\* err holds an Error with the body and the status code of the response.
HoldsResponse(err) ==
    \E n \in 1..Len(Constituents(err)) :
       /\ Constituents(err)[n].type = "*httpjson.Error"
       /\ Constituents(err)[n].ResponseBody = body
       /\ Constituents(err)[n].StatusCode = status

\* C17: every non-nil error that Get, Post or DecodeResponse returns once
\* the body is read holds an Error whose ResponseBody is the body read and
\* whose StatusCode is the status code of the response.
C17_ErrorCarriesBody ==
    (pc = "done" /\ result # Nil /\ result # Panic) => HoldsResponse(result)

\* DecodeResponse has decoded the body of a response with status 400 into
\* its first output and has returned the status Error alone.
C17_Witness ==
    /\ pc = "done"
    /\ res = 0
    /\ status = 400
    /\ outErrs = <<>>
    /\ result = Join(<<HTTPError(body, status, FALSE)>>)

----------------------------------------------------------------------------
\* C18: when Get fails on a body that is not well-formed JSON, the error
\* matches *json.SyntaxError and *Error; when it fails on an unknown field,
\* the error matches *Error and UnknownFieldError and not *json.SyntaxError.
C18_InspectByKind ==
    pc = "done" =>
      /\ ~WellFormed(body)
         => /\ HasType(result, "*json.SyntaxError")
            /\ HasType(result, "*httpjson.Error")
      /\ (~Lenient /\ IsUnknownKeyError(StrictError) /\ result # Panic)
         => /\ HasType(result, "*httpjson.Error")
            /\ HasType(result, "*httpjson.UnknownFieldError")
            /\ ~HasType(result, "*json.SyntaxError")

----------------------------------------------------------------------------
\* C19: when the shape at a node is a struct or a map and the value is not a
\* mapping, or the shape is a slice and the value is not a sequence, the
\* walker returns exactly one diagnostic, at the path of the node, with the
\* type of the value itself, and nothing from below the node; so it does at
\* the root and at a declared key.
C19_ContainerMismatchOneDiagnostic ==
    pc = "done" =>
      /\ (/\ Kind(Deref(t)) \in {"Struct", "Map"}
          /\ value.k \notin {"nil", "map[string]interface {}"})
         => result = Returns(<<[Field |-> prefix, Type |-> value.k]>>)
      /\ (/\ Kind(Deref(t)) \in {"Slice", "Array"}
          /\ value.k \notin {"nil", "[]interface {}"})
         => result = Returns(<<[Field |-> prefix, Type |-> value.k]>>)
      /\ (/\ t \in {"TestStruct", "WithArray", "WithMap"}
          /\ value.k = "map[string]interface {}"
          /\ Len(value.c) = 1
          /\ value.c[1].key \in {"Nested", "unnamed_array", "M"}
          /\ value.c[1].val.k
                \notin {"nil", IF t = "WithArray" THEN "[]interface {}"
                                ELSE "map[string]interface {}"})
         => result = Returns(<<[Field |-> IF prefix = "" THEN value.c[1].key
                                          ELSE prefix \o "." \o value.c[1].key,
                                Type |-> value.c[1].val.k]>>)

\* The walk of {"Nested":[...]} for TestStruct, whose Nested is a struct,
\* has reported the sequence at Nested and nothing below it.
C19_Witness ==
    /\ pc = "done"
    /\ t = "TestStruct"
    /\ prefix = ""
    /\ value.k = "map[string]interface {}"
    /\ Len(value.c) = 1
    /\ value.c[1].key = "Nested"
    /\ value.c[1].val.k = "[]interface {}"
    /\ Len(value.c[1].val.c) = 1
    /\ result = Returns(<<[Field |-> "Nested", Type |-> "[]interface {}"]>>)

----------------------------------------------------------------------------
\* The number of keys of val that the struct they stand in does not declare,
\* counted through declared keys and sequence elements only.
RECURSIVE UnmatchedKeys(_, _), UnmatchedFrom(_, _, _)
UnmatchedKeys(typ, val) ==
    LET d == Deref(typ) IN
    IF val.k = "nil" \/ Kind(d) \notin {"Struct", "Slice"} THEN 0
    ELSE UnmatchedFrom(d, val.c, 1)
UnmatchedFrom(d, c, n) ==
    IF n > Len(c) THEN 0
    ELSE (IF Kind(d) = "Slice" THEN UnmatchedKeys(Elem(d), c[n])
          ELSE IF c[n].key \notin AcceptedKeys(d) THEN 1
          ELSE UnmatchedKeys(TypeTable[d].Fields[FieldOfKey(d, c[n].key)].Type, c[n].val))
         + UnmatchedFrom(d, c, n + 1)

\* C20: for a closed shape and a value shaped like it, the walker returns as
\* many diagnostics as there are undeclared keys reached through declared
\* fields, each of them once; an undeclared key whose value is a mapping or
\* a sequence gives one diagnostic, at its own path, and nothing from below.
C20_EveryUnmatchedKeyOnce ==
    (pc = "done" /\ (ClosedStruct(t) \/ ClosedSlice(t)) /\ ShapedLike(t, value))
    => /\ ~result.panic
       /\ Len(result.out) = UnmatchedKeys(t, value)
       /\ \A m, n \in 1..Len(result.out) : m # n => result.out[m] # result.out[n]
       /\ (/\ Kind(Deref(t)) = "Struct"
           /\ Len(value.c) = 1
           /\ value.c[1].key \notin AcceptedKeys(Deref(t)))
          => result = Returns(<<[Field |-> IF prefix = "" THEN value.c[1].key
                                           ELSE prefix \o "." \o value.c[1].key,
                                 Type |-> value.c[1].val.k]>>)

\* The walk of a mapping whose only key is undeclared and holds a mapping
\* with a key of its own has returned one diagnostic.
C20_Witness ==
    /\ pc = "done"
    /\ ClosedStruct(t)
    /\ value.k = "map[string]interface {}"
    /\ Len(value.c) = 1
    /\ value.c[1].key \notin AcceptedKeys(Deref(t))
    /\ value.c[1].val.k = "map[string]interface {}"
    /\ Len(value.c[1].val.c) = 1
    /\ Len(result.out) = 1

----------------------------------------------------------------------------
\* The paths at which val holds a null under a declared key or as an element
\* of a sequence, for shape typ.
RECURSIVE NullPaths(_, _, _)
NullPaths(typ, val, pfx) ==
    LET d == Deref(typ) IN
    IF val.k = "nil" THEN {pfx}
    ELSE CASE Kind(d) = "Struct" /\ val.k = "map[string]interface {}" ->
                  UNION {LET e == val.c[i] IN
                         IF e.key \notin AcceptedKeys(d) THEN {}
                         ELSE NullPaths(TypeTable[d].Fields[FieldOfKey(d, e.key)].Type, e.val,
                                        IF pfx = "" THEN e.key ELSE pfx \o "." \o e.key) :
                         i \in 1..Len(val.c)}
           [] Kind(d) = "Slice" /\ val.k = "[]interface {}" ->
                  UNION {NullPaths(Elem(d), val.c[i], pfx \o "[" \o Itoa(i - 1) \o "]") :
                         i \in 1..Len(val.c)}
           [] OTHER -> {}

\* Every member of the mapping val is null, or every element of the
\* sequence val is.
AllNull(val) ==
    /\ val.k \in {"map[string]interface {}", "[]interface {}"}
    /\ \A i \in 1..Len(val.c) :
          (IF val.k = "[]interface {}" THEN val.c[i] ELSE val.c[i].val).k = "nil"

\* C21: a null produces no diagnostic against any shape: the walk of a null
\* root returns nothing for every type; no diagnostic is at the path of a
\* null that sits under a declared key or in a sequence; a struct whose
\* members are all null gets diagnostics for its undeclared keys only, a
\* sequence of nulls gets none, and an empty mapping (every field absent)
\* gets none.
C21_NullNeverReported ==
    pc = "done" =>
      /\ value.k = "nil" => result = Returns(<<>>)
      /\ \A d \in Diagnostics : d.Field \notin NullPaths(t, value, prefix)
      /\ (Kind(Deref(t)) = "Struct" /\ AllNull(value) /\ value.k = "map[string]interface {}")
         => /\ ~result.panic
            /\ Len(result.out) = Cardinality(AbsentKeys(t, value))
      /\ (Kind(Deref(t)) = "Slice" /\ AllNull(value) /\ value.k = "[]interface {}")
         => result = Returns(<<>>)

\* The walk of {"Nested":null} for TestStruct has returned no diagnostic.
C21_Witness ==
    /\ pc = "done"
    /\ t = "TestStruct"
    /\ value.k = "map[string]interface {}"
    /\ Len(value.c) = 1
    /\ value.c[1].key = "Nested"
    /\ value.c[1].val.k = "nil"
    /\ result = Returns(<<>>)

----------------------------------------------------------------------------
\* Pairs of a shape with pointers in it and the same shape without them.
PointerPairs ==
    {<<"*NestedStruct", "NestedStruct">>, <<"*Node", "Node">>, <<"**Node", "Node">>,
     <<"[]*NestedStruct", "[]NestedStruct">>}

\* C22: pointers in a shape do not change the walk: what the walker returned
\* for *T, **T or []*T is an outcome of the walk of the same value with the
\* same prefix for T or []T, and the other way round.
C22_PointersTransparent ==
    pc = "done" =>
      \A pair \in PointerPairs :
         /\ t = pair[1] => result \in findExtraKeysGeneric(pair[2], value, prefix)
         /\ t = pair[2] => result \in findExtraKeysGeneric(pair[1], value, prefix)

\* The walk of {"next":{"Extra":"s"}} for **Node has reported next.Extra.
C22_Witness ==
    /\ pc = "done"
    /\ t = "**Node"
    /\ prefix = ""
    /\ value.k = "map[string]interface {}"
    /\ Len(value.c) = 1
    /\ value.c[1].key = "next"
    /\ result = Returns(<<[Field |-> "next.Extra", Type |-> "string"]>>)

----------------------------------------------------------------------------
\* The number of options DecodeResponse tried without success.
FailedOptions == IF res = -1 THEN Len(outs) ELSE res

\* C23: the error DecodeResponse returns is joined from one failure for each
\* option that was tried without success, in the order of the options, the
\* n-th of them labelled with option index n - 1 and wrapping the error of
\* decoding the body into that option, and then the status Error as the
\* last one; the option that decoded and the options after it have none.
C23_FailuresInOptionOrder ==
    (pc = "done" /\ result \notin {Nil, Panic}) =>
      /\ result.type = "*errors.joinError"
      /\ Len(result.errs) = FailedOptions + 1
      /\ result.errs[Len(result.errs)].type = "*httpjson.Error"
      /\ \A n \in 1..FailedOptions :
            /\ result.errs[n].type = "*fmt.wrapError"
            /\ result.errs[n].msg =
                  <<"failed to decode server response option #", Itoa(n - 1), ": ">>
            /\ Decode(body, outs[n], TRUE) # Nil
            /\ \E r \in decodeJSON(body, outs[n], FALSE) : result.errs[n].err = r.err

\* DecodeResponse has failed on both of two options: the error holds the
\* failure of option 0, the failure of option 1 and the status Error.
C23_Witness ==
    /\ pc = "done"
    /\ Len(outs) = 2
    /\ res = -1
    /\ result \notin {Nil, Panic}
    /\ Len(result.errs) = 3
    /\ result.errs[2].msg[2] = "1"

----------------------------------------------------------------------------
\* A decode attempt of DecodeResponse fails: the loop stops at the first
\* option that decodes, so one fails exactly when the first one does.
AttemptFails == outs # <<>> /\ Decode(body, outs[1], TRUE) # Nil

\* C24: DecodeResponse returns a nil error exactly when no decode attempt
\* failed and the status is below 400; a fallback decoded at index >= 1 comes
\* with an error that holds an Error; the Error that is attached has
\* PrintBody set exactly when a decode attempt failed, and for a status of
\* 400 or more with the first option decoded the message is the one line
\* `http <code>`.
C24_NilErrorAndPrintBody ==
    (pc = "done" /\ result # Panic) =>
      /\ result = Nil <=> (~AttemptFails /\ status < 400)
      /\ res >= 1 => HasType(result, "*httpjson.Error")
      /\ result # Nil
         => /\ result.errs[Len(result.errs)].type = "*httpjson.Error"
            /\ result.errs[Len(result.errs)].PrintBody = AttemptFails
            /\ result.errs[Len(result.errs)].StatusCode = status
      /\ (status >= 400 /\ res = 0)
         => ErrorLines(result) = <<<<"http ", ToString(status)>>>>

\* DecodeResponse has decoded a response of status 400 into its first
\* option: the error is the status Error alone, without the body.
C24_Witness ==
    /\ pc = "done"
    /\ status = 400
    /\ res = 0
    /\ result = Join(<<HTTPError(body, 400, FALSE)>>)

----------------------------------------------------------------------------
\* The number of calls of Close on the body.
RECURSIVE Closes(_)
Closes(c) == IF c = <<>> THEN 0 ELSE (IF Head(c) = "Close" THEN 1 ELSE 0) + Closes(Tail(c))

----------------------------------------------------------------------------
\* The keys of the caller that stand for header key: those with its
\* canonical form.
CallerKeysOf(key) == {k \in DOMAIN hdr : CanonicalMIMEHeaderKey(k) = key}

\* The values of header key before the caller's headers are applied.
BeforeCaller(key) ==
    IF key = "Content-Type" THEN <<DefaultContentType>> ELSE reqHeader0[key]

\* C26: when Client.Do sends the request, a header the caller gave no key
\* for is as it was (Content-Type at its default); a header the caller gave
\* one key for is deleted when the list of values is empty, holds the one
\* value when there is one, and holds its former values followed by the
\* caller's values, in order, when there are several; and a Content-Type
\* given by the caller has replaced the default.
C26_CallerHeadersApplied ==
    doPc = "sent" =>
      /\ \A key \in CanonicalKeys :
            /\ CallerKeysOf(key) = {} => reqHeader[key] = BeforeCaller(key)
            /\ \A k \in CallerKeysOf(key) :
                  CallerKeysOf(key) = {k}
                  => reqHeader[key] = CASE Len(hdr[k]) = 0 -> <<>>
                                        [] Len(hdr[k]) = 1 -> hdr[k]
                                        [] OTHER -> BeforeCaller(key) \o hdr[k]
      /\ CallerKeysOf("Content-Type") # {}
         => \A n \in 1..Len(reqHeader["Content-Type"]) :
               reqHeader["Content-Type"][n] # DefaultContentType

----------------------------------------------------------------------------
\* The Records of the round trip that are in C or were received from it.
OwnRecords ==
    LET Own(r) == r.Request = "req" IN
    SelectSeq(received, Own) \o SelectSeq(chanC, Own)

\* C27: in a round trip that returned a response, a Record is on C or was
\* received from it only after the body was closed, and the body it holds is
\* the bytes the caller has read, in the order they were read; what the
\* caller has read is the beginning of what the server sent.
C27_RecordHoldsWhatWasRead ==
    ~transportFails =>
      /\ OwnRecords # <<>> => closeCalls >= 1
      /\ closeCalls = 0 => capPc \in {"start", "open"}
      /\ \A n \in 1..Len(OwnRecords) : OwnRecords[n].Response = [Body |-> got]
      /\ got \o wire = sentBody

\* The receiver holds the Record of a body of three bytes that the caller
\* read in at least two reads before it closed it.
C27_Witness ==
    /\ ~transportFails
    /\ capPc = "open"
    /\ closeCalls = 1
    /\ Len(got) = MaxChunk + 1
    /\ got = sentBody
    /\ received = <<[Request |-> "req", Response |-> [Body |-> sentBody], Err |-> Nil]>>

----------------------------------------------------------------------------
\* One Record of the round trip was sent: it is in C or was received.
OneRecord == Len(OwnRecords) = 1

\* What C30 says of every state: while the body was closed at most once
\* there is at most one Record of the round trip; when the transport gave
\* no response the Record is sent before RoundTrip returns and carries the
\* error; with a response the Record is sent by the Close of the body, that
\* is, it is there exactly when that Close has returned.
RecordOnce ==
    closeCalls <= 1 =>
      /\ Len(OwnRecords) <= 1
      /\ transportFails
         => /\ capPc \in {"start", "sendErr", "failed"}
            /\ OneRecord <=> capPc = "failed"
            /\ OneRecord => OwnRecords[1] = ErrRecord
      /\ ~transportFails
         => /\ capPc \in {"start", "open", "sendRecord"}
            /\ OneRecord <=> (capPc = "open" /\ closeCalls = 1)
            /\ OneRecord => OwnRecords[1].Response # Nil

\* C30: every round trip yields one Record, sent in RoundTrip when there is
\* no response and by the Close of the body otherwise; when the body is
\* closed once and the receiver goes on receiving, a RoundTrip that waits to
\* send returns, a Close that waits to send returns, and the Record is
\* received in the end.
C30_OneRecordDelivered ==
    /\ []RecordOnce
    /\ (capPc = "sendErr") ~> (capPc = "failed")
    /\ (capPc = "sendRecord") ~> (capPc = "open")
    /\ <>(\E n \in 1..Len(received) : received[n].Request = "req")

\* The Record of a round trip without response was received from a channel
\* that held the Record of another round trip when RoundTrip was called.
C30_Witness ==
    /\ transportFails
    /\ capPc = "failed"
    /\ capacity = 1
    /\ received = <<OtherRecord, ErrRecord>>

----------------------------------------------------------------------------
\* C28: when the strict decoder returned an error, the strict Get returns
\* an error (or the walker aborts it); when the walker ran and returned no
\* diagnostic, and when the body is no mapping the walker could be given,
\* the error of the decoder is the one that is returned, joined with the
\* status Error.
C28_FailedDecodeStaysFailed ==
    (pc = "done" /\ ~Lenient /\ StrictError # Nil) =>
      /\ result # Nil
      /\ (walked /\ result # Panic /\ DiagnosticsOf(result) = {})
         => result = Join(<<StrictError, HTTPError(body, status, TRUE)>>)
      /\ ~DecodeMap(body)
         => /\ ~walked
            /\ result = Join(<<StrictError, HTTPError(body, status, TRUE)>>)

\* The walker ran on a body the strict decoder had refused and returned no
\* diagnostic: the Get has failed with the error of the decoder.
C28_Witness ==
    /\ pc = "done"
    /\ ~Lenient
    /\ walked
    /\ StrictError # Nil
    /\ result = Join(<<StrictError, HTTPError(body, status, TRUE)>>)

----------------------------------------------------------------------------
\* The keys of the object doc.
KeysOf(doc) == {doc.c[i].key : i \in 1..Len(doc.c)}

\* The error holds a diagnostic that reports key as unknown at the root: a
\* diagnostic at the path `key` for a key that is no wire key of typ.
ReportedUnknown(err, typ, key) ==
    /\ key \notin AcceptedKeys(Deref(typ))
    /\ \E d \in DiagnosticsOf(err) : d.Field = key

\* C29: when a strict Get into a struct has failed with the diagnostics of
\* the walker, the keys of the body that are reported as unknown at the root
\* are the keys the strict decoder rejects there: those that match no field
\* of the struct, by name or by name without regard to case.
C29_WalkerAgreesWithDecoder ==
    (/\ pc = "done"
     /\ ~Lenient
     /\ walked
     /\ result # Panic
     /\ Kind(Deref(t)) = "Struct"
     /\ body.k = "object")
    => \A key \in KeysOf(body) :
          ReportedUnknown(result, t, key) <=> DecoderField(Deref(t), key) = 0

====
